---- MODULE Spec2Model ----
(***************************************************************************)
(* Verification model of the appliance repair-or-replace decision system:  *)
(*   - the case pipeline (src/agents.py, src/graph.py) as driven by        *)
(*     process_service_case (src/main.py);                                 *)
(*   - the business rules engine (src/business_rules/decision_engine.py);  *)
(*   - the replacement ranker generate_replacement_options.                *)
(*                                                                         *)
(* Conventions.                                                            *)
(*   Text is a sequence of one-character strings, so that lower(), split() *)
(*   and the substring test "x in y" are computed, not assumed.            *)
(*   An optional value (Python None / a value) is the empty set or a       *)
(*   singleton set.                                                        *)
(*   Money is in thousandths of a CHF, probabilities in 1/10000,           *)
(*   confidences in 1/1000000, ranking scores in tenths of a point.        *)
(***************************************************************************)
EXTENDS Integers, Sequences, FiniteSets, TLC

\* ------------------------------------------------------------------ text
None == {}
Some(v) == {v}
Val(o) == CHOOSE v \in o : TRUE

\* str.lower() on one character (the descriptions are ASCII)
LowerOf ==
  [A |-> "a", B |-> "b", C |-> "c", D |-> "d", E |-> "e", F |-> "f", G |-> "g",
   H |-> "h", I |-> "i", J |-> "j", K |-> "k", L |-> "l", M |-> "m", N |-> "n",
   O |-> "o", P |-> "p", Q |-> "q", R |-> "r", S |-> "s", T |-> "t", U |-> "u",
   V |-> "v", W |-> "w", X |-> "x", Y |-> "y", Z |-> "z"]

LowerChar(c) == IF c \in DOMAIN LowerOf THEN LowerOf[c] ELSE c

\* str.lower()
RECURSIVE Lower(_)
Lower(s) == IF s = <<>> THEN <<>> ELSE <<LowerChar(Head(s))>> \o Lower(Tail(s))

\* Python's  needle in hay  on two strings
Contains(hay, needle) ==
  \E i \in 0..(Len(hay) - Len(needle)) : SubSeq(hay, i + 1, i + Len(needle)) = needle

\* str.split(): the maximal runs of non-blank characters, in order
RECURSIVE SplitFrom(_, _, _)
SplitFrom(s, i, word) ==
  IF i > Len(s)
    THEN (IF word = <<>> THEN <<>> ELSE <<word>>)
    ELSE IF s[i] = " "
      THEN (IF word = <<>> THEN <<>> ELSE <<word>>) \o SplitFrom(s, i + 1, <<>>)
      ELSE SplitFrom(s, i + 1, Append(word, s[i]))

Split(s) == SplitFrom(s, 1, <<>>)

S_empty == <<>>
S_oven == <<"o","v","e","n">>
S_Oven == <<"O","v","e","n">>
S_cooktop == <<"c","o","o","k","t","o","p">>
S_dishwasher == <<"d","i","s","h","w","a","s","h","e","r">>
S_refrigerator == <<"r","e","f","r","i","g","e","r","a","t","o","r">>
S_Siemens == <<"S","i","e","m","e","n","s">>
S_VZug == <<"V","-","Z","u","g">>
S_Miele == <<"M","i","e","l","e">>
S_Bosch == <<"B","o","s","c","h">>
S_Standard == <<"S","t","a","n","d","a","r","d">>
S_Silver == <<"S","i","l","v","e","r">>
S_Gold == <<"G","o","l","d">>
S_Platinum == <<"P","l","a","t","i","n","u","m">>
K_smoke == <<"s","m","o","k","e">>
K_fire == <<"f","i","r","e">>
K_burning == <<"b","u","r","n","i","n","g">>
K_electric_shock == <<"e","l","e","c","t","r","i","c"," ","s","h","o","c","k">>
K_gas_leak == <<"g","a","s"," ","l","e","a","k">>

\* fault descriptions the model feeds in
D_smoke == <<"S","m","o","k","e"," ","c","o","m","i","n","g"," ","f","r","o","m"," ","u","n","i","t",","," ","b","u","r","n","i","n","g"," ","s","m","e","l","l">>
D_board == <<"C","o","m","p","l","e","t","e"," ","c","o","n","t","r","o","l"," ","b","o","a","r","d"," ","f","a","i","l","u","r","e">>
D_heating == <<"F","7"," ","E","3"," ","h","e","a","t","i","n","g"," ","e","l","e","m","e","n","t"," ","n","o","t"," ","w","o","r","k","i","n","g">>
D_leak == <<"W","a","t","e","r"," ","l","e","a","k"," ","f","r","o","m"," ","d","o","o","r"," ","s","e","a","l">>
D_gas == <<"G","A","S"," ","L","E","A","K">>
D_hum == <<"o","d","d"," ","h","u","m">>

\* ------------------------------------------------------------ input sets
\* The requests the model feeds in.  ServiceCaseInput (src/main.py) types the
\* four fields as str, str, int, str and constrains none of them.
MaxAge == 16
DeviceTypes == {S_empty, S_oven, S_Oven, S_cooktop, S_dishwasher, S_refrigerator}
Brands == {S_empty, S_VZug, S_Siemens}

\* every device type and brand, present or empty, at the ages around the
\* validity and warranty tests and at the oldest age
ShapeCases ==
  [device_type : DeviceTypes, brand : Brands, age : {-1, 0, 1, MaxAge},
   error_description : {S_empty, D_smoke, D_hum}]

\* every age past the first year on the categories that have a catalog
AnalysisCases ==
  [device_type : {S_cooktop, S_dishwasher, S_oven}, brand : {S_VZug, S_Siemens},
   age : 2..MaxAge, error_description : {D_heating, D_board, D_hum, D_gas}]

\* the demonstration requests
ScenarioCases ==
  { [device_type |-> S_cooktop, brand |-> S_VZug, age |-> 3, error_description |-> D_heating],
    [device_type |-> S_oven, brand |-> S_Siemens, age |-> 15, error_description |-> D_board],
    [device_type |-> S_cooktop, brand |-> S_Miele, age |-> 1, error_description |-> D_smoke],
    [device_type |-> S_dishwasher, brand |-> S_VZug, age |-> 4, error_description |-> D_leak] }

Cases == ShapeCases \cup AnalysisCases \cup ScenarioCases

\* ---------------------------------------------------------------- triage
safety_keywords == <<K_smoke, K_fire, K_burning, K_electric_shock, K_gas_leak>>

\* any(keyword in error_desc for keyword in safety_keywords)
HasSafetyKeyword(error_desc) ==
  \E i \in 1..Len(safety_keywords) : Contains(error_desc, safety_keywords[i])

\* the reasoning text is kept as a short tag
Decision(status, route, reasoning) ==
  [status |-> status, route |-> route, reasoning |-> reasoning]

\* a faulty triage that takes the lifespan limit as exclusive (age > 15)
triage_agent_lifespan_exclusive(st) ==
  IF st.device_type = <<>> \/ st.brand = <<>> \/ st.age = 0 \/ st.error_description = <<>>
    THEN Decision("incomplete", "manual_review", "missing mandatory field")
    ELSE IF st.age <= 1 /\ Lower(st.device_type) \in {S_oven, S_refrigerator}
      THEN Decision("complete", "manufacturer", "under manufacturer warranty")
      ELSE IF st.age > 15
        THEN Decision("complete", "replacement_focus", "exceeds typical lifespan")
        ELSE IF HasSafetyKeyword(Lower(st.error_description))
          THEN Decision("complete", "urgent_manufacturer", "safety concern")
          ELSE Decision("complete", "normal", "standard service case")

\* triage_agent: the value of the triage_decision it returns
triage_agent(st) ==
  IF st.device_type = <<>> \/ st.brand = <<>> \/ st.age = 0 \/ st.error_description = <<>>
    THEN Decision("incomplete", "manual_review", "missing mandatory field")
    ELSE LET age == st.age
             device_type == Lower(st.device_type)
             error_desc == Lower(st.error_description)
         IN  IF age <= 1 /\ device_type \in {S_oven, S_refrigerator}
               THEN Decision("complete", "manufacturer", "under manufacturer warranty")
               ELSE IF age >= 15
                 THEN Decision("complete", "replacement_focus", "exceeds typical lifespan")
                 ELSE IF HasSafetyKeyword(error_desc)
                   THEN Decision("complete", "urgent_manufacturer", "safety concern")
                   ELSE Decision("complete", "normal", "standard service case")

\* ------------------------------------------------------------ data tables
\* APPLIANCE_DATA[device][brand]["common_errors"], in declaration order;
\* success_rate in percent
Errors_cooktop_VZug ==
  <<
     [code |-> <<"E","2","6">>,
      description |-> <<"W","a","t","e","r"," ","i","n"," ","m","a","c","h","i","n","e",","," ","p","u","m","p"," ","n","o","t"," ","d","r","a","i","n","i","n","g">>,
      repair_cost |-> 180, success_rate |-> 95],
     [code |-> <<"F","7","_","E","3">>,
      description |-> <<"H","e","a","t","i","n","g"," ","e","l","e","m","e","n","t"," ","f","a","i","l","u","r","e">>,
      repair_cost |-> 220, success_rate |-> 90],
     [code |-> <<"p","o","w","e","r","_","i","s","s","u","e">>,
      description |-> <<"N","o"," ","p","o","w","e","r","/","n","o","t"," ","t","u","r","n","i","n","g"," ","o","n">>,
      repair_cost |-> 150, success_rate |-> 85]
  >>

Errors_cooktop_Miele ==
  <<
     [code |-> <<"h","e","a","t","i","n","g","_","f","a","i","l","u","r","e">>,
      description |-> <<"U","n","e","v","e","n"," ","h","e","a","t","i","n","g">>,
      repair_cost |-> 280, success_rate |-> 88],
     [code |-> <<"d","i","s","p","l","a","y","_","e","r","r","o","r">>,
      description |-> <<"D","i","s","p","l","a","y"," ","n","o","t"," ","w","o","r","k","i","n","g">>,
      repair_cost |-> 320, success_rate |-> 75],
     [code |-> <<"s","e","n","s","o","r","_","f","a","u","l","t">>,
      description |-> <<"T","e","m","p","e","r","a","t","u","r","e"," ","s","e","n","s","o","r"," ","m","a","l","f","u","n","c","t","i","o","n">>,
      repair_cost |-> 200, success_rate |-> 92]
  >>

Errors_dishwasher_VZug ==
  <<
     [code |-> <<"w","a","t","e","r","_","l","e","a","k">>,
      description |-> <<"W","a","t","e","r"," ","l","e","a","k","i","n","g"," ","f","r","o","m"," ","d","o","o","r">>,
      repair_cost |-> 160, success_rate |-> 94],
     [code |-> <<"n","o","t","_","c","l","e","a","n","i","n","g">>,
      description |-> <<"P","o","o","r"," ","c","l","e","a","n","i","n","g"," ","p","e","r","f","o","r","m","a","n","c","e">>,
      repair_cost |-> 120, success_rate |-> 90],
     [code |-> <<"p","u","m","p","_","n","o","i","s","e">>,
      description |-> <<"U","n","u","s","u","a","l"," ","p","u","m","p"," ","n","o","i","s","e">>,
      repair_cost |-> 240, success_rate |-> 85]
  >>

Errors_oven_Siemens ==
  <<
     [code |-> <<"d","o","o","r","_","s","e","a","l">>,
      description |-> <<"D","o","o","r"," ","s","e","a","l"," ","d","a","m","a","g","e","d">>,
      repair_cost |-> 200, success_rate |-> 95],
     [code |-> <<"h","e","a","t","i","n","g","_","e","l","e","m","e","n","t">>,
      description |-> <<"H","e","a","t","i","n","g"," ","e","l","e","m","e","n","t"," ","b","u","r","n","e","d"," ","o","u","t">>,
      repair_cost |-> 300, success_rate |-> 88],
     [code |-> <<"t","e","m","p","e","r","a","t","u","r","e","_","c","o","n","t","r","o","l">>,
      description |-> <<"T","e","m","p","e","r","a","t","u","r","e"," ","n","o","t"," ","a","c","c","u","r","a","t","e">>,
      repair_cost |-> 250, success_rate |-> 90]
  >>

Catalog_cooktop ==
  <<
     [brand |-> <<"V","-","Z","u","g">>, model |-> "AdoraID V6000 Supreme", price |-> 2400, margin |-> 480, stock |-> "high", energy_rating |-> "A++"],
     [brand |-> <<"V","-","Z","u","g">>, model |-> "AdoraID V4000", price |-> 1800, margin |-> 360, stock |-> "medium", energy_rating |-> "A+"],
     [brand |-> <<"M","i","e","l","e">>, model |-> "KM 7897 FL", price |-> 2800, margin |-> 560, stock |-> "low", energy_rating |-> "A++"],
     [brand |-> <<"S","i","e","m","e","n","s">>, model |-> "EX875LYC1E", price |-> 1200, margin |-> 240, stock |-> "high", energy_rating |-> "A"]
  >>

Catalog_dishwasher ==
  <<
     [brand |-> <<"V","-","Z","u","g">>, model |-> "Adora SL V4000", price |-> 1600, margin |-> 320, stock |-> "high", energy_rating |-> "A+++"],
     [brand |-> <<"M","i","e","l","e">>, model |-> "G 7960 SCVi", price |-> 2200, margin |-> 440, stock |-> "medium", energy_rating |-> "A+++"]
  >>

Catalog_oven ==
  <<
     [brand |-> <<"V","-","Z","u","g">>, model |-> "Combair V6000 Supreme", price |-> 3200, margin |-> 640, stock |-> "medium", energy_rating |-> "A++"],
     [brand |-> <<"S","i","e","m","e","n","s">>, model |-> "HB678GBS6", price |-> 1800, margin |-> 360, stock |-> "high", energy_rating |-> "A+"]
  >>


\* APPLIANCE_DATA.get(device_type, {}).get(brand, {}).get("common_errors", {})
CommonErrors(device_type, brand) ==
  IF device_type = S_cooktop /\ brand = S_VZug THEN Errors_cooktop_VZug
  ELSE IF device_type = S_cooktop /\ brand = S_Miele THEN Errors_cooktop_Miele
  ELSE IF device_type = S_dishwasher /\ brand = S_VZug THEN Errors_dishwasher_VZug
  ELSE IF device_type = S_oven /\ brand = S_Siemens THEN Errors_oven_Siemens
  ELSE <<>>

\* APPLIANCE_DATA.get(device_type, {}).get(brand, {}).get("warranty_years", 2):
\* every entry of the table says 2, and so does the default
WarrantyYears(device_type, brand) == 2

\* REPLACEMENT_PRODUCTS.get(device_type, [])
ReplacementProducts(device_type) ==
  IF device_type = S_cooktop THEN Catalog_cooktop
  ELSE IF device_type = S_dishwasher THEN Catalog_dishwasher
  ELSE IF device_type = S_oven THEN Catalog_oven
  ELSE <<>>

\* the test of the matching loops of simulate_sap_integration and
\* technical_analyst_agent:
\*   error_code.lower() in error_desc or
\*   any(word in error_desc for word in description.lower().split())
ErrorMatches(e, error_desc) ==
  \/ Contains(error_desc, Lower(e.code))
  \/ LET words == Split(Lower(e.description))
     IN  \E i \in 1..Len(words) : Contains(error_desc, words[i])

\* index of the first matching entry (the loop breaks there), 0 when none
MatchedError(common_errors, error_desc) ==
  IF \E i \in 1..Len(common_errors) : ErrorMatches(common_errors[i], error_desc)
    THEN CHOOSE i \in 1..Len(common_errors) :
           /\ ErrorMatches(common_errors[i], error_desc)
           /\ \A j \in 1..(i - 1) : ~ErrorMatches(common_errors[j], error_desc)
    ELSE 0

Min(a, b) == IF a <= b THEN a ELSE b
Max(a, b) == IF a >= b THEN a ELSE b

\* -------------------------------------------------------------- enrichment
DefaultRepairCost == 300
MinJitter == -50
MaxJitter == 100
\* values of random.randint(-50, 100) the model draws
Jitters == {MinJitter, 0, MaxJitter}

\* simulate_sap_integration; jitter is the value random.randint returned
simulate_sap_integration(device_type, brand, error_desc, jitter) ==
  LET common_errors == CommonErrors(device_type, brand)
      m == MatchedError(common_errors, error_desc)
      base == IF m = 0 THEN DefaultRepairCost ELSE common_errors[m].repair_cost
      parts_availability ==
        IF m # 0 /\ common_errors[m].success_rate > 90 THEN "high" ELSE "medium"
      repair_cost == base + jitter
  IN  [estimated_repair_cost |-> repair_cost * 1000,
       parts_availability |-> parts_availability,
       labor_cost |-> repair_cost * 400,
       parts_cost |-> repair_cost * 600]

\* simulate_salesforce_integration (the random customer_id is left out)
simulate_salesforce_integration(brand) ==
  [customer_tier |-> S_Gold,
   brand_loyalty |-> Some([kind |-> "str", text |-> brand, items |-> <<>>])]

\* original_value * (1 - 0.08) ** age, in thousandths, one year at a time
RECURSIVE Depreciate(_, _)
Depreciate(v, age) ==
  IF age = 0 THEN v
  ELSE IF age > 0 THEN Depreciate((v * 92) \div 100, age - 1)
  ELSE Depreciate((v * 100) \div 92, age + 1)

OriginalValue(device_type) ==
  IF device_type = S_cooktop THEN 2000
  ELSE IF device_type = S_dishwasher THEN 1500
  ELSE IF device_type = S_oven THEN 2500
  ELSE 1800

\* simulate_pim_integration: its "specifications" entry
simulate_pim_integration(device_type, brand, age) ==
  LET original_value == OriginalValue(device_type)
      current_value == Depreciate(original_value * 1000, age)
  IN  [specifications |->
         [original_purchase_price |-> original_value * 1000,
          current_market_value |-> Max(current_value, original_value * 100),
          energy_rating |-> IF age < 5 THEN "A+" ELSE "A",
          warranty_remaining |-> IF age <= 2 THEN Max(0, 2 - age) ELSE 0]]

\* a faulty enrichment that gives a device of any age the narrow cost ceiling
data_enrichment_agent_narrow_ceiling(st, jitter) ==
  LET device_type == Lower(st.device_type)
      sap_data == simulate_sap_integration(device_type, st.brand,
                                           Lower(st.error_description), jitter)
      pim_data == simulate_pim_integration(device_type, st.brand, st.age)
  IN  [repair_cost |-> Some(sap_data.estimated_repair_cost),
       spare_part_availability |-> Some(sap_data.parts_availability),
       customer_data |-> Some(simulate_salesforce_integration(st.brand)),
       device_specs |-> Some(pim_data.specifications),
       cost_ceiling |-> Some(Min((1000 * 1000 * 6) \div 10, 800 * 1000)),
       sap_data |-> Some(sap_data)]

\* data_enrichment_agent: the partial update it returns.
\* pim_data has no key "current_market_value" at its top level (the value
\* sits under "specifications"), so pim_data.get("current_market_value", 1000)
\* always yields the default 1000.
data_enrichment_agent(st, jitter) ==
  LET device_type == Lower(st.device_type)
      brand == st.brand
      age == st.age
      error_desc == Lower(st.error_description)
      sap_data == simulate_sap_integration(device_type, brand, error_desc, jitter)
      salesforce_data == simulate_salesforce_integration(brand)
      pim_data == simulate_pim_integration(device_type, brand, age)
      device_value == 1000 * 1000
      cost_ceiling ==
        IF age > 10
          THEN Min(Max((device_value * 6) \div 10, 1800 * 1000), 2500 * 1000)
          ELSE Min((device_value * 6) \div 10, 800 * 1000)
  IN  [repair_cost |-> Some(sap_data.estimated_repair_cost),
       spare_part_availability |-> Some(sap_data.parts_availability),
       customer_data |-> Some(salesforce_data),
       device_specs |-> Some(pim_data.specifications),
       cost_ceiling |-> Some(cost_ceiling),
       sap_data |-> Some(sap_data)]

\* ------------------------------------------------------ technical analysis
electrical_keywords ==
  << <<"p","o","w","e","r">>, <<"d","i","s","p","l","a","y">>,
     <<"e","l","e","c","t","r","i","c">>, <<"e","l","e","c","t","r","o","n","i","c">>,
     <<"c","i","r","c","u","i","t">>, <<"c","o","n","t","r","o","l">> >>
mechanical_keywords ==
  << <<"l","e","a","k">>, <<"p","u","m","p">>, <<"d","o","o","r">>, <<"s","e","a","l">>,
     <<"h","e","a","t","i","n","g">>, <<"n","o","i","s","e">>,
     <<"v","i","b","r","a","t","i","o","n">> >>

AnyKeyword(keywords, text) == \E i \in 1..Len(keywords) : Contains(text, keywords[i])

DefaultSuccessRate == 75

\* a faulty decay without the floor of 0.5
AgeFactor_no_floor(age) == IF age > 5 THEN 100 - (age - 5) * 5 ELSE 100

\* max(0.5, 1 - (age - 5) * 0.05) if age > 5 else 1.0, in percent
AgeFactor(age) == IF age > 5 THEN Max(50, 100 - (age - 5) * 5) ELSE 100

\* technical_analyst_agent: the partial update it returns
technical_analyst_agent(st) ==
  LET device_type == Lower(st.device_type)
      brand == st.brand
      age == st.age
      error_desc == Lower(st.error_description)
      warranty_years == WarrantyYears(device_type, brand)
      warranty_status == IF age <= warranty_years THEN "under_warranty" ELSE "out_of_warranty"
      damage_type ==
        IF AnyKeyword(electrical_keywords, error_desc) THEN "electrical"
        ELSE IF AnyKeyword(mechanical_keywords, error_desc) THEN "mechanical"
        ELSE "unknown"
      common_errors == CommonErrors(device_type, brand)
      m == MatchedError(common_errors, error_desc)
      base_rate == IF m = 0 THEN DefaultSuccessRate ELSE common_errors[m].success_rate
      age_factor == AgeFactor(age)
      repair_probability == base_rate * age_factor
      complexity ==
        IF repair_probability > 9000 THEN "low"
        ELSE IF repair_probability > 7000 THEN "medium"
        ELSE "high"
      timeline ==
        IF repair_probability > 9000 THEN "1-2 days"
        ELSE IF repair_probability > 7000 THEN "3-5 days"
        ELSE "1-2 weeks"
  IN  [warranty_status |-> Some(warranty_status),
       damage_classification |-> Some(damage_type),
       repair_probability |-> Some(repair_probability),
       repair_complexity |-> Some(complexity),
       technical_analysis |->
         Some([matched_error_pattern |-> m,
               age_impact_factor |-> age_factor,
               estimated_timeline |-> timeline,
               required_expertise |-> IF complexity = "high" THEN "specialist" ELSE "standard",
               parts_complexity |-> IF damage_type = "mechanical" THEN "standard" ELSE "electronic",
               risk_assessment |-> IF repair_probability > 8000 THEN "low" ELSE "medium"])]

\* ------------------------------------------------------- economic analysis
\* replacement_margins.sort(key=margin_percentage, reverse=True)[0]: the first
\* product of the highest margin/price ratio (the sort is stable)
BestMarginProduct(products) ==
  CHOOSE i \in 1..Len(products) :
    /\ \A j \in 1..Len(products) :
         products[i].margin * products[j].price >= products[j].margin * products[i].price
    /\ \A j \in 1..(i - 1) :
         products[j].margin * products[i].price < products[i].margin * products[j].price

\* a faulty score that adds the 10 of the 0.8 ratio band on top of the 25 of
\* the 0.5 band
EconomicScore_cumulative_ratio(repair_cost, cost_ceiling, current_value, customer_tier, age) ==
    (IF repair_cost <= cost_ceiling THEN 40 ELSE 0)
  + (IF current_value > 0 /\ repair_cost * 2 < current_value THEN 25 ELSE 0)
  + (IF current_value > 0 /\ repair_cost * 5 < current_value * 4 THEN 10 ELSE 0)
  + (IF customer_tier = S_Gold THEN 15 ELSE IF customer_tier = S_Silver THEN 10 ELSE 0)
  + (IF age < 8 THEN 10 ELSE 0)
  + (IF age * 2 < 15 THEN 10 ELSE 0)

\* the weighted score of economic_analyst_agent (lines 421-457)
EconomicScore(repair_cost, cost_ceiling, current_value, customer_tier, age) ==
    (IF repair_cost <= cost_ceiling THEN 40 ELSE 0)
  + (IF current_value > 0
       THEN (IF repair_cost * 2 < current_value THEN 25
             ELSE IF repair_cost * 5 < current_value * 4 THEN 10 ELSE 0)
       ELSE 0)
  + (IF customer_tier = S_Gold THEN 15 ELSE IF customer_tier = S_Silver THEN 10 ELSE 0)
  + (IF age < 8 THEN 10 ELSE 0)
  + (IF age * 2 < 15 THEN 10 ELSE 0)

\* a faulty economic analysis that looks at the repair probability of the
\* technical analysis and answers replace when it is below 0.6
economic_analyst_agent_reads_probability(st) ==
  LET score == EconomicScore(Val(st.repair_cost), Val(st.cost_ceiling),
                             Val(st.device_specs).current_market_value,
                             Val(st.customer_data).customer_tier, st.age)
      unlikely == st.repair_probability # None /\ Val(st.repair_probability) < 6000
      replacement_options == ReplacementProducts(Lower(st.device_type))
  IN  [economic_viability |-> Some(IF score >= 60 /\ ~unlikely THEN "repair" ELSE "replace"),
       margin_analysis |->
         Some([best_replacement_margin |->
                 IF replacement_options = <<>> THEN 0
                 ELSE replacement_options[BestMarginProduct(replacement_options)].margin,
               economic_score |-> score]),
       replacement_value |->
         Some(IF replacement_options = <<>> THEN 2000
              ELSE replacement_options[BestMarginProduct(replacement_options)].price)]

\* economic_analyst_agent: the partial update it returns
economic_analyst_agent(st) ==
  LET repair_cost == Val(st.repair_cost)
      cost_ceiling == Val(st.cost_ceiling)
      device_specs == Val(st.device_specs)
      customer_data == Val(st.customer_data)
      device_type == Lower(st.device_type)
      age == st.age
      current_value == device_specs.current_market_value
      replacement_options == ReplacementProducts(device_type)
      best_replacement_margin ==
        IF replacement_options = <<>> THEN 0
        ELSE replacement_options[BestMarginProduct(replacement_options)].margin
      score == EconomicScore(repair_cost, cost_ceiling, current_value,
                             customer_data.customer_tier, age)
      recommendation == IF score >= 60 THEN "repair" ELSE "replace"
      factors ==
        [repair_within_ceiling |-> repair_cost <= cost_ceiling,
         customer_tier |-> customer_data.customer_tier,
         sustainability_impact |-> age < 8,
         replacement_margin_opportunity |-> best_replacement_margin]
  IN  [economic_viability |-> Some(recommendation),
       economic_reasoning |->
         Some(IF score >= 60 THEN "Economic analysis favors repair"
              ELSE "Economic analysis favors replacement"),
       detailed_reasoning |->
         Some(  <<IF factors.repair_within_ceiling THEN "within ceiling"
                  ELSE "exceeds ceiling">>
             \o <<IF current_value > 0 /\ repair_cost * 2 < current_value
                    THEN "reasonable relative to device value"
                  ELSE IF current_value > 0 /\ repair_cost * 5 < current_value * 4
                    THEN "acceptable relative to device value"
                  ELSE "high relative to device value">>
             \o (IF factors.customer_tier = S_Gold THEN <<"Premium customer">> ELSE <<>>)
             \o (IF factors.sustainability_impact
                   THEN <<"Environmental benefit from repair">> ELSE <<>>)
             \o (IF age * 2 < 15 THEN <<"Device is relatively new">> ELSE <<>>)),
       economic_factors |-> Some(factors),
       margin_analysis |->
         Some([best_replacement_margin |-> best_replacement_margin,
               economic_score |-> score]),
       replacement_value |->
         Some(IF replacement_options = <<>> THEN 2000
              ELSE replacement_options[BestMarginProduct(replacement_options)].price)]

\* ------------------------------------------------------ replacement ranker
\* a brand preference is either a list of brands or, when it comes from
\* customer_data["brand_loyalty"], one brand string; Python's "in" is
\* membership on the first and a substring test on the second
BrandList(items) == [kind |-> "list", text |-> <<>>, items |-> items]
BrandText(text) == [kind |-> "str", text |-> text, items |-> <<>>]

\* product["brand"] in customer_brands
BrandIn(brand, customer_brands) ==
  IF customer_brands.kind = "str"
    THEN Contains(customer_brands.text, brand)
    ELSE \E i \in 1..Len(customer_brands.items) : customer_brands.items[i] = brand

stock_scores(stock) ==
  IF stock = "high" THEN 20 ELSE IF stock = "medium" THEN 12
  ELSE IF stock = "low" THEN 5 ELSE 0

energy_scores(rating) ==
  IF rating = "A+++" THEN 15 ELSE IF rating = "A++" THEN 12
  ELSE IF rating = "A+" THEN 9 ELSE IF rating = "A" THEN 6
  ELSE IF rating = "B" THEN 3 ELSE 0

RECURSIVE SumPrice(_)
SumPrice(products) ==
  IF products = <<>> THEN 0 ELSE Head(products).price + SumPrice(Tail(products))

RECURSIVE MaxMargin(_)
MaxMargin(products) ==
  IF Len(products) = 1 THEN Head(products).margin
  ELSE Max(Head(products).margin, MaxMargin(Tail(products)))

\* round(n / d) to the nearest integer, a tie going to the even one
\* (Python's round), for n >= 0 and d > 0
RoundHalfEven(n, d) ==
  LET q == n \div d
      r == n % d
  IN  IF 2 * r < d THEN q
      ELSE IF 2 * r > d THEN q + 1
      ELSE IF q % 2 = 0 THEN q ELSE q + 1

\* round(score, 1) of one product, in tenths of a point (lines 632-691)
ProductScore(product, budget_filtered, customer_brands, current_device_age) ==
  LET brand_score == IF BrandIn(product.brand, customer_brands) THEN 25 ELSE 10
      max_margin == MaxMargin(budget_filtered)
      stock_score == stock_scores(product.stock)
      energy_score == energy_scores(product.energy_rating)
      upgrade_score ==
        IF current_device_age > 8 THEN 10
        ELSE IF current_device_age > 4 THEN 6 ELSE 2
      n == Len(budget_filtered)
      total == SumPrice(budget_filtered)
      price_score ==
        IF product.price * n * 10 <= total * 9 THEN 5
        ELSE IF product.price * n * 10 <= total * 11 THEN 3
        ELSE 1
      whole == brand_score + stock_score + energy_score + upgrade_score + price_score
  IN  whole * 10
        + (IF max_margin > 0 THEN RoundHalfEven(product.margin * 250, max_margin) ELSE 0)

\* scored_products.sort(key=recommendation_score, reverse=True): a stable
\* sort, equal scores keep their catalog order
RECURSIVE InsertByScore(_, _)
InsertByScore(sorted, p) ==
  IF sorted = <<>> THEN <<p>>
  ELSE IF Head(sorted).recommendation_score >= p.recommendation_score
    THEN <<Head(sorted)>> \o InsertByScore(Tail(sorted), p)
    ELSE <<p>> \o sorted

\* a faulty ranking that leaves the scored products in catalog order
KeepCatalogOrder(products) == products

RECURSIVE SortByScore(_)
SortByScore(products) ==
  IF products = <<>> THEN <<>>
  ELSE InsertByScore(SortByScore(SubSeq(products, 1, Len(products) - 1)),
                     products[Len(products)])

TopOffers == 3

\* a faulty label that counts a score of exactly 70 as High and of exactly
\* 50 as Medium
ConfidenceLabel_inclusive(score) ==
  IF score >= 700 THEN "High" ELSE IF score >= 500 THEN "Medium" ELSE "Standard"

ConfidenceLabel(score) ==
  IF score > 700 THEN "High" ELSE IF score > 500 THEN "Medium" ELSE "Standard"

\* the body of generate_replacement_options after its inputs are read
\* (lines 620-713); cost_ceiling in thousandths of a CHF, prices in CHF.
\* The descriptive fields of an offer (delivery, warranty, trade-in, TCO,
\* reasons) take no part in filtering or ranking and are left out.
RankOffers(available_products, cost_ceiling, current_device_age, customer_brands) ==
  LET budget_filtered ==
        SelectSeq(available_products,
                  LAMBDA p : IF current_device_age > 10
                               THEN p.price * 1000 <= cost_ceiling * 2
                               ELSE p.price * 1000 * 2 <= cost_ceiling * 3)
      scored_products ==
        [i \in 1..Len(budget_filtered) |->
           [brand |-> budget_filtered[i].brand,
            model |-> budget_filtered[i].model,
            price |-> budget_filtered[i].price,
            margin |-> budget_filtered[i].margin,
            stock |-> budget_filtered[i].stock,
            energy_rating |-> budget_filtered[i].energy_rating,
            recommendation_score |->
              ProductScore(budget_filtered[i], budget_filtered, customer_brands,
                           current_device_age)]]
      ranked == SortByScore(scored_products)
      top == SubSeq(ranked, 1, Min(TopOffers, Len(ranked)))
  IN  [i \in 1..Len(top) |->
         [brand |-> top[i].brand,
          model |-> top[i].model,
          price |-> top[i].price,
          margin |-> top[i].margin,
          stock |-> top[i].stock,
          energy_rating |-> top[i].energy_rating,
          recommendation_score |-> top[i].recommendation_score,
          ranking_position |-> i,
          recommendation_confidence |-> ConfidenceLabel(top[i].recommendation_score)]]

\* customer_preferences.get("preferred_brands",
\*                          customer_data.get("brand_loyalty", []))
CustomerBrands(customer_preferences, customer_data) ==
  IF customer_preferences.preferred_brands # None
    THEN Val(customer_preferences.preferred_brands)
    ELSE IF customer_data.brand_loyalty # None
      THEN Val(customer_data.brand_loyalty)
      ELSE BrandList(<<>>)

\* generate_replacement_options
generate_replacement_options(st) ==
  RankOffers(ReplacementProducts(Lower(st.device_type)),
             Val(st.cost_ceiling),
             st.age,
             CustomerBrands(st.customer_preferences, Val(st.customer_data)))

\* ------------------------------------------------ recommendation synthesis
ConfidenceCap == 950000

\* a faulty synthesis that leaves out the cap of 0.95
SynthesisConfidence_uncapped(economic_score, repair_probability) ==
  economic_score * 6000 + repair_probability * 40

\* min(final_score / 100, 0.95) with
\* final_score = economic_score * 0.6 + repair_probability * 100 * 0.4
SynthesisConfidence(economic_score, repair_probability) ==
  Min(economic_score * 6000 + repair_probability * 40, ConfidenceCap)

\* bounds of random.randint(100000, 999999) in generate_repair_order
MinOrderId == 100000
MaxOrderId == 999999
\* values of the order number the model draws
OrderIds == {MinOrderId, MaxOrderId}

\* generate_repair_order; order_id is the value random.randint returned
\* (the created_timestamp of datetime.now() is left out)
generate_repair_order(st, order_id) ==
  LET sap_data == Val(st.sap_data)
      technical_analysis == Val(st.technical_analysis)
  IN  [order_id |-> order_id,
       device_info |->
         [type |-> st.device_type, brand |-> st.brand, age |-> st.age,
          error_description |-> st.error_description],
       cost_breakdown |->
         [parts_cost |-> sap_data.parts_cost,
          labor_cost |-> sap_data.labor_cost,
          total_cost |-> Val(st.repair_cost)],
       estimated_duration |-> technical_analysis.estimated_timeline,
       warranty_status |-> Val(st.warranty_status),
       skill_level_required |-> "standard",
       status |-> "created"]

\* a faulty synthesis whose high-probability override does not look at the
\* customer tier
recommendation_engine_agent_any_tier(st, order_id) ==
  LET economic_viability == Val(st.economic_viability)
      repair_probability == Val(st.repair_probability)
      margin_analysis == Val(st.margin_analysis)
      customer_data == Val(st.customer_data)
      economic_score == margin_analysis.economic_score
      confidence_score == SynthesisConfidence(economic_score, repair_probability)
      low == repair_probability < 6000
      high == repair_probability > 9000
      final_recommendation ==
        IF low THEN "replace" ELSE IF high THEN "repair" ELSE economic_viability
      override_reason ==
        IF low THEN Some("Low technical success probability")
        ELSE IF high THEN Some("High success probability with premium customer")
        ELSE None
  IN  [recommendation |-> Some(final_recommendation),
       repair_order |->
         IF final_recommendation = "repair" THEN Some(generate_repair_order(st, order_id)) ELSE None,
       replacement_options |->
         IF final_recommendation = "repair" THEN Some(<<>>)
         ELSE Some(generate_replacement_options(st)),
       justification |->
         Some([source |-> "recommendation",
               text |-> IF final_recommendation = "repair"
                          THEN "technical, economic, customer"
                          ELSE "replacement offers better value",
               override |-> IF final_recommendation = "repair" THEN override_reason ELSE None]),
       confidence_score |-> Some(confidence_score),
       agent_reasoning |->
         Some([triage |-> st.triage_decision,
               viability |-> economic_viability,
               score |-> economic_score,
               probability |-> repair_probability,
               confidence |-> confidence_score,
               override_applied |-> override_reason # None,
               override_reason |-> override_reason])]

\* recommendation_engine_agent: the partial update it returns; order_id is
\* the random number generate_repair_order draws
recommendation_engine_agent(st, order_id) ==
  LET economic_viability == Val(st.economic_viability)
      repair_probability == Val(st.repair_probability)
      margin_analysis == Val(st.margin_analysis)
      customer_data == Val(st.customer_data)
      economic_score == margin_analysis.economic_score
      confidence_score == SynthesisConfidence(economic_score, repair_probability)
      low == repair_probability < 6000
      high == repair_probability > 9000 /\ customer_data.customer_tier = S_Gold
      final_recommendation ==
        IF low THEN "replace" ELSE IF high THEN "repair" ELSE economic_viability
      override_reason ==
        IF low THEN Some("Low technical success probability")
        ELSE IF high THEN Some("High success probability with premium customer")
        ELSE None
  IN  [recommendation |-> Some(final_recommendation),
       repair_order |->
         IF final_recommendation = "repair" THEN Some(generate_repair_order(st, order_id)) ELSE None,
       replacement_options |->
         IF final_recommendation = "repair" THEN Some(<<>>)
         ELSE Some(generate_replacement_options(st)),
       justification |->
         Some([source |-> "recommendation",
               text |-> IF final_recommendation = "repair"
                          THEN "technical, economic, customer"
                          ELSE "replacement offers better value",
               override |-> IF final_recommendation = "repair" THEN override_reason ELSE None]),
       confidence_score |-> Some(confidence_score),
       agent_reasoning |->
         Some([triage |-> st.triage_decision,
               viability |-> economic_viability,
               score |-> economic_score,
               probability |-> repair_probability,
               confidence |-> confidence_score,
               override_applied |-> override_reason # None,
               override_reason |-> override_reason])]

\* a faulty referral node that writes the device type back in lower case
manufacturer_referral_normalises(st) ==
  [recommendation |-> Some("manufacturer_referral"),
   justification |->
     Some([source |-> "triage", text |-> Val(st.triage_decision).reasoning, override |-> None]),
   confidence_score |-> Some(1000000),
   device_type |-> Lower(st.device_type)]

\* the two terminal nodes added in create_workflow
manufacturer_referral(st) ==
  [recommendation |-> Some("manufacturer_referral"),
   justification |->
     Some([source |-> "triage", text |-> Val(st.triage_decision).reasoning, override |-> None]),
   confidence_score |-> Some(1000000)]

manual_review_required(st) ==
  [recommendation |-> Some("manual_review"),
   justification |->
     Some([source |-> "triage", text |-> Val(st.triage_decision).reasoning, override |-> None]),
   confidence_score |-> Some(0)]

\* ============================================================ rules engine
\* A Python value of a rule or of the case data, tagged with its type:
\* t is "int", "str", "list", "dict" or "none".
IntV(n) == [t |-> "int", n |-> n, s |-> <<>>, l |-> <<>>, d |-> <<>>]
StrV(s) == [t |-> "str", n |-> 0, s |-> s, l |-> <<>>, d |-> <<>>]
ListV(l) == [t |-> "list", n |-> 0, s |-> <<>>, l |-> l, d |-> <<>>]
DictV(d) == [t |-> "dict", n |-> 0, s |-> <<>>, l |-> <<>>, d |-> d]
NoneV == [t |-> "none", n |-> 0, s |-> <<>>, l |-> <<>>, d |-> <<>>]

\* Python's == on two values that are not dicts
PyEq(a, b) == a.t = b.t /\ a.n = b.n /\ a.s = b.s /\ a.l = b.l

\* _get_nested_value; a field path is kept as the list of its segments
RECURSIVE _get_nested_value(_, _)
_get_nested_value(value, keys) ==
  IF keys = <<>> THEN value
  ELSE IF value.t = "dict" /\ Head(keys) \in DOMAIN value.d
    THEN _get_nested_value(value.d[Head(keys)], Tail(keys))
    ELSE NoneV

Digits == <<"0","1","2","3","4","5","6","7","8","9">>

RECURSIVE NatToStr(_)
NatToStr(n) ==
  IF n < 10 THEN <<Digits[n + 1]>> ELSE Append(NatToStr(n \div 10), Digits[(n % 10) + 1])

S_None == <<"N","o","n","e">>

\* str(v) for a string, an integer or None
PyStr(v) ==
  IF v.t = "str" THEN v.s
  ELSE IF v.t = "int" THEN (IF v.n < 0 THEN <<"-">> \o NatToStr(0 - v.n) ELSE NatToStr(v.n))
  ELSE S_None

\* any(val.lower() in text for val in values) / all(...): the generator stops
\* at the first deciding element; an element that is not a string raises
RECURSIVE ContainsList(_, _, _)
ContainsList(values, text, match_any) ==
  IF values = <<>> THEN (IF match_any THEN "false" ELSE "true")
  ELSE IF Head(values).t # "str" THEN "raise"
  ELSE LET hit == Contains(text, Lower(Head(values).s))
       IN  IF match_any /\ hit THEN "true"
           ELSE IF ~match_any /\ ~hit THEN "false"
           ELSE ContainsList(Tail(values), text, match_any)

Bool(b) == IF b THEN "true" ELSE "false"

\* actual_value in expected_value
PyIn(actual, expected) ==
  IF expected.t = "list" THEN Bool(\E i \in 1..Len(expected.l) : PyEq(actual, expected.l[i]))
  ELSE IF expected.t = "str" /\ actual.t = "str" THEN Bool(Contains(expected.s, actual.s))
  ELSE "raise"

Negate(r) == IF r = "true" THEN "false" ELSE IF r = "false" THEN "true" ELSE r

\* actual_value > expected_value and its siblings: defined on two integers,
\* a TypeError on an integer against a string, a list or None.  The ordering
\* of two strings or two lists is not modelled.
PyOrder(op, actual, expected) ==
  IF actual.t = "int" /\ expected.t = "int"
    THEN Bool(CASE op = "gt" -> actual.n > expected.n
                [] op = "lt" -> actual.n < expected.n
                [] op = "gte" -> actual.n >= expected.n
                [] op = "lte" -> actual.n <= expected.n)
    ELSE IF actual.t = expected.t THEN "unmodelled" ELSE "raise"

\* _evaluate_single_condition: "true", "false", or "raise" when the Python
\* code raises.  A condition is
\*   [field, operator : optional, value : tagged, value_field : optional,
\*    match_any : BOOLEAN]
\* with value = NoneV when the key "value" is absent.
_evaluate_single_condition(condition, case_data) ==
  IF condition.field = None \/ condition.operator = None THEN "raise"
  ELSE
    LET operator == Val(condition.operator)
        actual_value == _get_nested_value(case_data, Val(condition.field))
        dynamic == condition.value_field # None /\ Val(condition.value_field) # <<>>
        expected_value ==
          IF dynamic THEN _get_nested_value(case_data, Val(condition.value_field))
          ELSE condition.value
    IN  IF actual_value.t = "none" THEN "false"
        ELSE IF dynamic /\ expected_value.t = "none" THEN "false"
        ELSE IF operator = "equals" THEN Bool(PyEq(actual_value, expected_value))
        ELSE IF operator \in {"gt", "lt", "gte", "lte"}
          THEN PyOrder(operator, actual_value, expected_value)
        ELSE IF operator = "contains"
          THEN IF expected_value.t = "list"
                 THEN ContainsList(expected_value.l, Lower(PyStr(actual_value)),
                                   condition.match_any)
                 ELSE Bool(Contains(Lower(PyStr(actual_value)),
                                    Lower(PyStr(expected_value))))
        ELSE IF operator = "in_list" THEN PyIn(actual_value, expected_value)
        ELSE IF operator = "not_in_list" THEN Negate(PyIn(actual_value, expected_value))
        ELSE "false"

\* _evaluate_rule_conditions: the conditions in order, stopping at the first
\* that is false (or raises)
RECURSIVE _evaluate_rule_conditions(_, _)
_evaluate_rule_conditions(conditions, case_data) ==
  IF conditions = <<>> THEN "true"
  ELSE LET r == _evaluate_single_condition(Head(conditions), case_data)
       IN  IF r = "true" THEN _evaluate_rule_conditions(Tail(conditions), case_data)
           ELSE r

\* _action_to_recommendation
_action_to_recommendation(action) ==
  IF action = "recommend_repair" THEN "repair"
  ELSE IF action = "recommend_replace" THEN "replace"
  ELSE IF action = "refer_manufacturer" THEN "manufacturer"
  ELSE IF action = "manual_review" THEN "manual"
  ELSE IF action = "escalate" THEN "manual"
  ELSE "repair"

\* ---------------------------------------------------------- evaluate_rules
\* A rule set is [name, priority : optional, rules]; self.rules["rule_sets"]
\* is the sequence of rule sets in the insertion order of the dict.
\* A rule is [name, conditions, action, weight, override]: weight is 0 and
\* override FALSE when the key is absent (rule.get("weight", 0),
\* rule.get("override", False)); the reasoning text is stood for by the name.
DefaultPriority == 999

PriorityOf(rule_set) ==
  IF rule_set.priority = None THEN DefaultPriority ELSE Val(rule_set.priority)

\* sorted(..., key=priority): stable, equal priorities keep insertion order
RECURSIVE InsertByPriority(_, _)
InsertByPriority(sorted, rs) ==
  IF sorted = <<>> THEN <<rs>>
  ELSE IF PriorityOf(Head(sorted)) <= PriorityOf(rs)
    THEN <<Head(sorted)>> \o InsertByPriority(Tail(sorted), rs)
    ELSE <<rs>> \o sorted

RECURSIVE SortByPriority(_)
SortByPriority(rule_sets) ==
  IF rule_sets = <<>> THEN <<>>
  ELSE InsertByPriority(SortByPriority(SubSeq(rule_sets, 1, Len(rule_sets) - 1)),
                        rule_sets[Len(rule_sets)])

\* the rules in the order the two nested loops visit them
RECURSIVE Flatten(_)
Flatten(sorted_sets) ==
  IF sorted_sets = <<>> THEN <<>>
  ELSE [i \in 1..Len(Head(sorted_sets).rules) |->
          [rule_set |-> Head(sorted_sets).name, rule |-> Head(sorted_sets).rules[i]]]
       \o Flatten(Tail(sorted_sets))

ScanOrder(rule_sets) == Flatten(SortByPriority(rule_sets))

Categories == <<"repair", "replace", "manufacturer", "manual">>

\* lines 263-279: the locals of evaluate_rules before the loops; checked
\* records the rules whose conditions were evaluated, outcome is "scanning",
\* "returned" (the early return of an override) or "raised"
ScanStart ==
  [final_recommendation |-> None,
   confidence_score |-> <<0, 1>>,
   applied_rules |-> <<>>,
   rule_weights |-> None,
   override_applied |-> FALSE,
   reasoning_chain |-> <<>>,
   total_weight |-> 0,
   recommendation_weights |-> [c \in {"repair", "replace", "manufacturer", "manual"} |-> 0],
   checked |-> <<>>,
   outcome |-> "scanning"]

\* a faulty iteration that records a matching override and goes on scanning
RuleStep_no_return(acc, rule_set_name, rule, case_data) ==
  LET matched == _evaluate_rule_conditions(rule.conditions, case_data)
      seen == [acc EXCEPT !.checked = Append(@, rule.name)]
      recommendation == _action_to_recommendation(rule.action)
  IN  IF matched # "true" THEN seen
      ELSE IF rule.override
        THEN [seen EXCEPT !.override_applied = TRUE,
                          !.final_recommendation = Some(recommendation),
                          !.confidence_score = <<1, 1>>]
      ELSE IF rule.weight > 0
        THEN [seen EXCEPT !.recommendation_weights[recommendation] = @ + rule.weight,
                          !.total_weight = @ + rule.weight]
      ELSE seen

\* lines 283-308: one iteration of the inner loop
RuleStep(acc, rule_set_name, rule, case_data) ==
  LET matched == _evaluate_rule_conditions(rule.conditions, case_data)
      seen == [acc EXCEPT !.checked = Append(@, rule.name)]
      applied == [seen EXCEPT !.applied_rules =
                    Append(@, [rule_set |-> rule_set_name, rule_name |-> rule.name,
                               action |-> rule.action, weight |-> rule.weight,
                               override |-> rule.override])]
      recommendation == _action_to_recommendation(rule.action)
  IN  IF matched = "raise" THEN [seen EXCEPT !.outcome = "raised"]
      ELSE IF matched # "true" THEN seen
      ELSE IF rule.override
        THEN [applied EXCEPT !.override_applied = TRUE,
                             !.final_recommendation = Some(recommendation),
                             !.confidence_score = <<1, 1>>,
                             !.reasoning_chain = Append(@, rule.name),
                             !.outcome = "returned"]
      ELSE IF rule.weight > 0
        THEN [applied EXCEPT !.recommendation_weights[recommendation] = @ + rule.weight,
                             !.total_weight = @ + rule.weight,
                             !.reasoning_chain = Append(@, rule.name)]
      ELSE applied

\* max(recommendation_weights.values())
MaxWeight(weights) ==
  CHOOSE m \in {weights[Categories[i]] : i \in 1..Len(Categories)} :
    \A i \in 1..Len(Categories) : weights[Categories[i]] <= m

\* a faulty choice that takes the last category with the highest tally
LastWithWeight(weights, m) ==
  Categories[CHOOSE i \in 1..Len(Categories) :
               /\ weights[Categories[i]] = m
               /\ \A j \in (i + 1)..Len(Categories) : weights[Categories[j]] # m]

\* [k for k, v in recommendation_weights.items() if v == max_weight][0]
FirstWithWeight(weights, m) ==
  Categories[CHOOSE i \in 1..Len(Categories) :
               /\ weights[Categories[i]] = m
               /\ \A j \in 1..(i - 1) : weights[Categories[j]] # m]

\* a faulty ending that leaves the result empty when no weight was tallied
Finalize_no_default(acc) ==
  IF acc.total_weight > 0
    THEN [acc EXCEPT !.rule_weights = Some(acc.recommendation_weights),
                     !.final_recommendation =
                        Some(FirstWithWeight(acc.recommendation_weights,
                                             MaxWeight(acc.recommendation_weights))),
                     !.confidence_score =
                        <<MaxWeight(acc.recommendation_weights), acc.total_weight>>,
                     !.outcome = "returned"]
    ELSE [acc EXCEPT !.outcome = "returned"]

\* lines 310-326: the result after the loops ran to their end
Finalize(acc) ==
  IF acc.total_weight > 0
    THEN LET max_weight == MaxWeight(acc.recommendation_weights)
         IN  [acc EXCEPT !.rule_weights = Some(acc.recommendation_weights),
                         !.final_recommendation =
                            Some(FirstWithWeight(acc.recommendation_weights, max_weight)),
                         !.confidence_score =
                            IF max_weight >= acc.total_weight THEN <<1, 1>>
                            ELSE <<max_weight, acc.total_weight>>,
                         !.outcome = "returned"]
    ELSE [acc EXCEPT !.final_recommendation = Some("repair"),
                     !.confidence_score = <<1, 2>>,
                     !.reasoning_chain = Append(@, "No specific rules matched"),
                     !.outcome = "returned"]

RECURSIVE ScanFrom(_, _, _, _)
ScanFrom(acc, order, i, case_data) ==
  IF acc.outcome # "scanning" THEN acc
  ELSE IF i > Len(order) THEN Finalize(acc)
  ELSE ScanFrom(RuleStep(acc, order[i].rule_set, order[i].rule, case_data),
                order, i + 1, case_data)

\* evaluate_rules as one call
evaluate_rules(rule_sets, case_data) ==
  ScanFrom(ScanStart, ScanOrder(rule_sets), 1, case_data)

\* ------------------------------------------------------- the default rules
Cond(field, operator, value) ==
  [field |-> Some(field), operator |-> Some(operator), value |-> value,
   value_field |-> None, match_any |-> FALSE]
CondAny(field, operator, value) ==
  [field |-> Some(field), operator |-> Some(operator), value |-> value,
   value_field |-> None, match_any |-> TRUE]
CondField(field, operator, value_field) ==
  [field |-> Some(field), operator |-> Some(operator), value |-> NoneV,
   value_field |-> Some(value_field), match_any |-> FALSE]
Rule(name, conditions, action, weight, override) ==
  [name |-> name, conditions |-> conditions, action |-> action,
   weight |-> weight, override |-> override]
RuleSet(name, priority, rs) == [name |-> name, priority |-> priority, rules |-> rs]


\* default_rules["rule_sets"] of _load_rules; money in thousandths of a CHF,
\* probabilities in 1/10000
DefaultRules ==
  << RuleSet("safety_rules", Some(1),
       << Rule("smoke_fire_emergency",
               << CondAny(<<"error_description">>, "contains",
                          ListV(<<StrV(K_smoke), StrV(K_fire), StrV(K_burning), StrV(K_gas_leak)>>)) >>,
               "refer_manufacturer", 0, TRUE),
          Rule("electrical_hazard",
               << CondAny(<<"error_description">>, "contains",
                          ListV(<<StrV(K_electric_shock), StrV(<<"s","p","a","r","k","s">>),
                                  StrV(<<"b","u","r","n","i","n","g"," ","s","m","e","l","l"," ","f","r","o","m"," ","e","l","e","c","t","r","i","c","a","l">>)>>)) >>,
               "refer_manufacturer", 0, TRUE) >>),
     RuleSet("warranty_rules", Some(2),
       << Rule("under_warranty_new",
               << Cond(<<"age">>, "lte", IntV(1)),
                  Cond(<<"device_type">>, "in_list",
                       ListV(<<StrV(S_oven), StrV(S_refrigerator), StrV(S_dishwasher)>>)) >>,
               "refer_manufacturer", 0, FALSE) >>),
     RuleSet("economic_rules", Some(3),
       << Rule("high_value_customer_repair_preference",
               << Cond(<<"customer_tier">>, "in_list", ListV(<<StrV(S_Gold), StrV(S_Platinum)>>)),
                  Cond(<<"repair_cost">>, "lte", IntV(800 * 1000)),
                  Cond(<<"repair_probability">>, "gte", IntV(7000)) >>,
               "recommend_repair", 20, FALSE),
          Rule("cost_ceiling_exceeded",
               << CondField(<<"repair_cost">>, "gt", <<"cost_ceiling">>) >>,
               "recommend_replace", 30, FALSE),
          Rule("high_margin_replacement",
               << Cond(<<"replacement_margin">>, "gt", IntV(500 * 1000)),
                  Cond(<<"repair_probability">>, "lt", IntV(8000)) >>,
               "recommend_replace", 25, FALSE) >>),
     RuleSet("technical_rules", Some(4),
       << Rule("very_old_device",
               << Cond(<<"age">>, "gte", IntV(15)) >>,
               "recommend_replace", 25, FALSE),
          Rule("low_repair_probability",
               << Cond(<<"repair_probability">>, "lt", IntV(6000)) >>,
               "recommend_replace", 20, FALSE),
          Rule("high_success_repair",
               << Cond(<<"repair_probability">>, "gte", IntV(9000)),
                  Cond(<<"repair_cost">>, "lte", IntV(500 * 1000)) >>,
               "recommend_repair", 25, FALSE) >>),
     RuleSet("sustainability_rules", Some(5),
       << Rule("young_device_sustainability",
               << Cond(<<"age">>, "lt", IntV(8)),
                  Cond(<<"repair_probability">>, "gte", IntV(7000)) >>,
               "recommend_repair", 15, FALSE) >>) >>

\* ======================================================= the case pipeline
VARIABLES
  pc,              \* where process_service_case stands
  case,            \* the four inputs of the request
  enriched_state,  \* the dict built by enrich_case_with_real_data
  state,           \* the state of the workflow graph
  active,          \* the nodes scheduled in the current step of the graph
  writes,          \* the updates returned so far in the current step
  invoked,         \* how many times each node has run
  result,          \* the ServiceCaseOutput returned, once there is one
  rules,           \* self.rules["rule_sets"] of the rules engine
  case_data,       \* the case data handed to evaluate_rules
  scan,            \* the locals and results of evaluate_rules
  scan_pos,        \* the next rule evaluate_rules visits
  rank_in,         \* the inputs of a ranking on its own
  rank_out,        \* the offers it returned
  batch_jobs,      \* the batch_jobs dict of main.py: job id -> job record
  tasks,           \* the background tasks that hold a process_batch_cases call
  response,        \* what the last batch request was answered with
  rules_before,    \* the rule sets before add_custom_rule was called
  add_result       \* what add_custom_rule returned, once it has

vars == <<pc, case, enriched_state, state, active, writes, invoked, result,
          rules, case_data, scan, scan_pos, rank_in, rank_out,
          batch_jobs, tasks, response, rules_before, add_result>>

pipelineVars == <<pc, case, enriched_state, state, active, writes, invoked, result>>
engineVars == <<rules, case_data, scan, scan_pos>>
rankerVars == <<rank_in, rank_out>>
batchVars == <<batch_jobs, tasks, response>>
customVars == <<rules_before, add_result>>

Nodes == {"triage", "data_enrichment", "technical_analysis", "economic_analysis",
          "recommendation", "manufacturer_referral", "manual_review_required"}

\* the case record before anything is derived: the inputs, the rest None
BlankState(c) ==
  [device_type |-> c.device_type,
   brand |-> c.brand,
   age |-> c.age,
   error_description |-> c.error_description,
   customer_preferences |-> [preferred_brands |-> None],
   triage_decision |-> None,
   repair_cost |-> None,
   spare_part_availability |-> None,
   customer_data |-> None,
   device_specs |-> None,
   cost_ceiling |-> None,
   sap_data |-> None,
   warranty_status |-> None,
   damage_classification |-> None,
   repair_probability |-> None,
   repair_complexity |-> None,
   technical_analysis |-> None,
   economic_viability |-> None,
   economic_reasoning |-> None,
   margin_analysis |-> None,
   replacement_value |-> None,
   recommendation |-> None,
   repair_order |-> None,
   replacement_options |-> None,
   justification |-> None,
   confidence_score |-> None,
   agent_reasoning |-> None]

\* state.update(u) restricted to the keys of the state
ApplyUpdate(st, u) == [k \in DOMAIN st |-> IF k \in DOMAIN u THEN u[k] ELSE st[k]]

\* ------------------------------------------- enrich_case_with_real_data

\* error_multipliers of _simulate_sap_repair_costs, in tenths, in dict order
error_multipliers ==
  << [keyword |-> <<"h","e","a","t","i","n","g">>, mult |-> 12], [keyword |-> <<"p","u","m","p">>, mult |-> 14],
     [keyword |-> <<"e","l","e","c","t","r","o","n","i","c">>, mult |-> 16], [keyword |-> <<"d","i","s","p","l","a","y">>, mult |-> 18],
     [keyword |-> <<"s","e","n","s","o","r">>, mult |-> 11], [keyword |-> <<"s","e","a","l">>, mult |-> 8],
     [keyword |-> <<"d","o","o","r">>, mult |-> 9] >>

\* base_costs.get(device_type, {}).get(brand, 250)
base_costs(device_type, brand) ==
  IF device_type = S_cooktop
    THEN (IF brand = S_VZug THEN 250 ELSE IF brand = S_Miele THEN 280
          ELSE IF brand = S_Siemens THEN 200 ELSE IF brand = S_Bosch THEN 190 ELSE 250)
  ELSE IF device_type = S_oven
    THEN (IF brand = S_VZug THEN 320 ELSE IF brand = S_Miele THEN 350
          ELSE IF brand = S_Siemens THEN 280 ELSE IF brand = S_Bosch THEN 260 ELSE 250)
  ELSE IF device_type = S_dishwasher
    THEN (IF brand = S_VZug THEN 220 ELSE IF brand = S_Miele THEN 240
          ELSE IF brand = S_Siemens THEN 200 ELSE IF brand = S_Bosch THEN 180 ELSE 250)
  ELSE 250

\* SAPIntegration._simulate_sap_repair_costs
_simulate_sap_repair_costs(device_type, brand, error_description) ==
  LET base_cost == base_costs(device_type, brand)
      text == Lower(error_description)
      hit == {i \in 1..Len(error_multipliers) : Contains(text, error_multipliers[i].keyword)}
      multiplier ==
        IF hit = {} THEN 10
        ELSE error_multipliers[CHOOSE i \in hit : \A j \in hit : i <= j].mult
      parts_cost == base_cost * 60 * multiplier
      labor_cost == base_cost * 400
  IN  [cost_breakdown |->
         [parts_cost |-> parts_cost, labor_cost |-> labor_cost,
          total_cost |-> parts_cost + labor_cost],
       parts_availability |-> IF multiplier < 15 THEN "high" ELSE "medium"]

\* tiers of SalesforceIntegration._simulate_customer_profile: the profile of
\* "unknown" depends on hash("unknown"), which differs from process to process
Tiers == {S_Standard, S_Silver, S_Gold, S_Platinum}

\* enrich_case_with_real_data, given the tier the customer directory returned
enrich_case_with_real_data(c, tier) ==
  LET sap_data == _simulate_sap_repair_costs(c.device_type, c.brand, c.error_description)
      salesforce_data == [customer_tier |-> tier, brand_loyalty |-> None]
      pim_data == simulate_pim_integration(c.device_type, c.brand, c.age)
  IN  ApplyUpdate(BlankState(c),
        [customer_preferences |-> [preferred_brands |-> None],
         sap_data |-> Some(sap_data),
         repair_cost |-> Some(sap_data.cost_breakdown.total_cost),
         spare_part_availability |-> Some(sap_data.parts_availability),
         customer_data |-> Some(salesforce_data),
         device_specs |-> Some(pim_data.specifications),
         cost_ceiling |->
           Some(Min((pim_data.specifications.current_market_value * 6) \div 10, 800 * 1000))])

OptV(o, tag) ==
  IF o = None THEN NoneV ELSE IF tag = "int" THEN IntV(Val(o)) ELSE StrV(Val(o))

\* the enriched dict as the rules engine sees it: the keys the rules can name
CaseData(es) ==
  DictV([device_type |-> StrV(es.device_type),
         brand |-> StrV(es.brand),
         age |-> IntV(es.age),
         error_description |-> StrV(es.error_description),
         repair_cost |-> OptV(es.repair_cost, "int"),
         cost_ceiling |-> OptV(es.cost_ceiling, "int"),
         repair_probability |-> OptV(es.repair_probability, "int"),
         customer_data |->
           IF es.customer_data = None THEN NoneV
           ELSE DictV([customer_tier |-> StrV(Val(es.customer_data).customer_tier)])])

\* ------------------------------------------------------ the workflow graph
\* route_after_triage
route_after_triage(st) ==
  LET route == IF st.triage_decision = None THEN "normal"
               ELSE Val(st.triage_decision).route
  IN  IF route \in {"manufacturer", "urgent_manufacturer", "manual_review"} THEN route
      ELSE IF route = "replacement_focus" THEN "data_enrichment"
      ELSE "normal"

\* a faulty wiring that sends every triage route on to the enrichment
EdgeTargets_no_short_circuit(node, st) ==
  IF node = "triage" THEN {"data_enrichment"}
  ELSE IF node = "data_enrichment" THEN {"technical_analysis", "economic_analysis"}
  ELSE IF node \in {"technical_analysis", "economic_analysis"} THEN {"recommendation"}
  ELSE {}

\* a faulty wiring without the join: the recommendation follows the
\* technical analysis alone and runs beside the economic analysis
EdgeTargets_no_join(node, st) ==
  IF node = "triage"
    THEN IF route_after_triage(st) \in {"manufacturer", "urgent_manufacturer"}
           THEN {"manufacturer_referral"}
         ELSE IF route_after_triage(st) = "manual_review" THEN {"manual_review_required"}
         ELSE {"data_enrichment"}
  ELSE IF node = "data_enrichment" THEN {"technical_analysis"}
  ELSE IF node = "technical_analysis" THEN {"economic_analysis", "recommendation"}
  ELSE {}

\* a faulty wiring that sends the replacement_focus route to the referral
EdgeTargets_replacement_to_referral(node, st) ==
  IF node = "triage"
    THEN IF st.triage_decision = None THEN {"data_enrichment"}
         ELSE IF Val(st.triage_decision).route
                   \in {"manufacturer", "urgent_manufacturer", "replacement_focus"}
           THEN {"manufacturer_referral"}
         ELSE IF Val(st.triage_decision).route = "manual_review"
           THEN {"manual_review_required"}
         ELSE {"data_enrichment"}
  ELSE IF node = "data_enrichment" THEN {"technical_analysis", "economic_analysis"}
  ELSE IF node \in {"technical_analysis", "economic_analysis"} THEN {"recommendation"}
  ELSE {}

\* the edges of create_workflow: the nodes a finished node hands over to
\* (the empty set is END)
EdgeTargets(node, st) ==
  IF node = "triage"
    THEN LET r == route_after_triage(st)
         IN  IF r = "normal" THEN {"data_enrichment"}
             ELSE IF r = "manufacturer" THEN {"manufacturer_referral"}
             ELSE IF r = "urgent_manufacturer" THEN {"manufacturer_referral"}
             ELSE IF r = "manual_review" THEN {"manual_review_required"}
             ELSE {"data_enrichment"}
  ELSE IF node = "data_enrichment" THEN {"technical_analysis", "economic_analysis"}
  ELSE IF node = "technical_analysis" THEN {"recommendation"}
  ELSE IF node = "economic_analysis" THEN {"recommendation"}
  ELSE {}

RECURSIVE ApplyAll(_, _)
ApplyAll(st, ws) ==
  IF ws = <<>> THEN st ELSE ApplyAll(ApplyUpdate(st, Head(ws).update), Tail(ws))

\* two nodes of one step wrote the same key of the state: the graph library
\* rejects the step
WriteConflict(ws) ==
  \E i, j \in 1..Len(ws) :
    i < j /\ DOMAIN ws[i].update \cap DOMAIN ws[j].update \cap DOMAIN state # {}

\* a faulty error result that keeps the fallback confidence of 0.5
ErrorResult_fallback_confidence ==
  [recommendation |-> "error", repair_order |-> None, replacement_options |-> None,
   justification |-> [source |-> "error", text |-> "System error occurred", override |-> None],
   confidence_score |-> 500000]

ErrorResult ==
  [recommendation |-> "error", repair_order |-> None, replacement_options |-> None,
   justification |-> [source |-> "error", text |-> "System error occurred", override |-> None],
   confidence_score |-> 0]

\* One node of the current step has run on the state as it was when the
\* step began and returned update.  When it is the last node of the step,
\* the updates of the step are merged into the state and the nodes the edges
\* name become the next step; the graph ends when there is none.
RunNode(node, update) ==
  LET ws == Append(writes, [node |-> node, update |-> update])
  IN  /\ invoked' = [invoked EXCEPT ![node] = @ + 1]
      /\ IF active # {node}
           THEN /\ active' = active \ {node}
                /\ writes' = ws
                /\ UNCHANGED <<pc, state, result>>
           ELSE IF WriteConflict(ws)
             THEN /\ active' = {}
                  /\ writes' = <<>>
                  /\ pc' = "done"
                  /\ result' = Some(ErrorResult)
                  /\ UNCHANGED state
             ELSE /\ writes' = <<>>
                  /\ state' = ApplyAll(state, ws)
                  /\ active' = UNION {EdgeTargets(ws[i].node, state') : i \in 1..Len(ws)}
                  /\ pc' = IF active' = {} THEN "finish" ELSE "graph"
                  /\ UNCHANGED result
      /\ UNCHANGED <<case, enriched_state>>
      /\ UNCHANGED engineVars
      /\ UNCHANGED rankerVars
      /\ UNCHANGED batchVars
      /\ UNCHANGED customVars

\* the nodes registered by add_node, each with its function
Triage ==
  /\ pc = "graph"
  /\ "triage" \in active
  /\ RunNode("triage", [triage_decision |-> Some(triage_agent(state))])

DataEnrichment ==
  /\ pc = "graph"
  /\ "data_enrichment" \in active
  /\ \E jitter \in Jitters :
       RunNode("data_enrichment", data_enrichment_agent(state, jitter))

TechnicalAnalysis ==
  /\ pc = "graph"
  /\ "technical_analysis" \in active
  /\ RunNode("technical_analysis", technical_analyst_agent(state))

EconomicAnalysis ==
  /\ pc = "graph"
  /\ "economic_analysis" \in active
  /\ RunNode("economic_analysis", economic_analyst_agent(state))

Recommendation ==
  /\ pc = "graph"
  /\ "recommendation" \in active
  /\ \E order_id \in OrderIds :
       RunNode("recommendation", recommendation_engine_agent(state, order_id))

ManufacturerReferral ==
  /\ pc = "graph"
  /\ "manufacturer_referral" \in active
  /\ RunNode("manufacturer_referral", manufacturer_referral(state))

ManualReviewRequired ==
  /\ pc = "graph"
  /\ "manual_review_required" \in active
  /\ RunNode("manual_review_required", manual_review_required(state))

\* ------------------------------------------------- process_service_case
\* lines 150-153 for an authorised request: the case is enriched, or the
\* cost estimator (SAPIntegration._call_sap_api) raises and the handler
\* returns the error result (lines 228-238)
Enrich ==
  /\ pc = "start"
  /\ \/ \E tier \in Tiers :
          /\ enriched_state' = enrich_case_with_real_data(case, tier)
          /\ pc' = "rules"
          /\ UNCHANGED result
     \/ /\ pc' = "done"
        /\ result' = Some(ErrorResult)
        /\ UNCHANGED enriched_state
  /\ UNCHANGED <<case, state, active, writes, invoked>>
  /\ UNCHANGED engineVars
  /\ UNCHANGED rankerVars
  /\ UNCHANGED batchVars
  /\ UNCHANGED customVars

\* lines 155-162: the rules are evaluated on the enriched dict, then the
\* graph is entered at triage
ApplyRules ==
  /\ pc = "rules"
  /\ case_data' = CaseData(enriched_state)
  /\ scan' = evaluate_rules(rules, case_data')
  /\ IF scan'.outcome = "raised"
       THEN /\ pc' = "done"
            /\ result' = Some(ErrorResult)
            /\ UNCHANGED <<state, active>>
       ELSE /\ pc' = "graph"
            /\ state' = enriched_state
            /\ active' = {"triage"}
            /\ UNCHANGED result
  /\ UNCHANGED <<case, enriched_state, writes, invoked, rules, scan_pos>>
  /\ UNCHANGED rankerVars
  /\ UNCHANGED batchVars
  /\ UNCHANGED customVars

\* a faulty lookup that prefers the verdict of the rules
StateGet_rules_first(st, key, default) == default

\* dict.get(key, default): the default only when the key is absent
StateGet(st, key, default) == IF key \in DOMAIN st THEN st[key] ELSE default

\* lines 164-224: the response is read off the final state of the graph
Finish ==
  /\ pc = "finish"
  /\ LET recommendation == StateGet(state, "recommendation", scan.final_recommendation)
         justification ==
           StateGet(state, "justification",
                    Some([source |-> "rules", text |-> "reasoning chain", override |-> None]))
         confidence_score ==
           StateGet(state, "confidence_score",
                    Some((scan.confidence_score[1] * 1000000) \div scan.confidence_score[2]))
         repair_order == StateGet(state, "repair_order", None)
         replacement_options == StateGet(state, "replacement_options", Some(<<>>))
         empty == replacement_options = None \/ replacement_options = Some(<<>>)
         final_options ==
           IF recommendation = Some("replace") /\ empty
             THEN Some(generate_replacement_options(enriched_state))
             ELSE replacement_options
         \* lines 204-208: a service order is created for a repair with an
         \* order, a sales opportunity for a replace with offers; lines 226-238:
         \* a collaborator that raises there ends the request in the error result
         collaborator_called ==
           \/ recommendation = Some("repair") /\ repair_order # None
           \/ /\ recommendation = Some("replace")
              /\ final_options # None
              /\ final_options # Some(<<>>)
     IN  \/ result' =
              Some([recommendation |-> Val(recommendation),
                    repair_order |-> repair_order,
                    replacement_options |-> final_options,
                    justification |-> Val(justification),
                    confidence_score |-> Val(confidence_score)])
         \/ /\ collaborator_called
            /\ result' = Some(ErrorResult)
  /\ pc' = "done"
  /\ UNCHANGED <<case, enriched_state, state, active, writes, invoked>>
  /\ UNCHANGED engineVars
  /\ UNCHANGED rankerVars
  /\ UNCHANGED batchVars
  /\ UNCHANGED customVars

\* ------------------------------------------------------------ idle parts
\* the values the variables of a component keep while another one is
\* exercised on its own
IdleCase ==
  [device_type |-> S_oven, brand |-> S_Siemens, age |-> 1, error_description |-> D_hum]

NoRank == [available_products |-> <<>>, cost_ceiling |-> 0, age |-> 0,
           customer_brands |-> BrandList(<<>>)]

IdlePipeline ==
  /\ pc = "idle"
  /\ case = IdleCase
  /\ enriched_state = BlankState(IdleCase)
  /\ state = BlankState(IdleCase)
  /\ active = {}
  /\ writes = <<>>
  /\ invoked = [n \in Nodes |-> 0]
  /\ result = None

IdleEngine ==
  /\ rules = DefaultRules
  /\ case_data = NoneV
  /\ scan = ScanStart
  /\ scan_pos = 0

IdleRanker ==
  /\ rank_in = NoRank
  /\ rank_out = None

IdleBatch ==
  /\ batch_jobs = <<>>
  /\ tasks = <<>>
  /\ response = "none"

IdleCustom ==
  /\ rules_before = <<>>
  /\ add_result = None

\* the rules the engine has loaded: the shipped ones, or a rules file in which
\* one condition compares the age with a text
PipelineRules ==
  { DefaultRules,
    << RuleSet("custom", Some(1),
         << Rule("text_against_number", << Cond(<<"age">>, "gt", StrV(<<"t","e","n">>)) >>,
                 "recommend_replace", 40, FALSE) >>) >>
      \o DefaultRules }

Init ==
  /\ pc = "start"
  /\ case \in Cases
  /\ enriched_state = BlankState(case)
  /\ state = BlankState(case)
  /\ active = {}
  /\ writes = <<>>
  /\ invoked = [n \in Nodes |-> 0]
  /\ result = None
  /\ rules \in PipelineRules
  /\ case_data = NoneV
  /\ scan = ScanStart
  /\ scan_pos = 0
  /\ IdleRanker
  /\ IdleBatch
  /\ IdleCustom

Next ==
  \/ Enrich
  \/ ApplyRules
  \/ Triage
  \/ DataEnrichment
  \/ TechnicalAnalysis
  \/ EconomicAnalysis
  \/ Recommendation
  \/ ManufacturerReferral
  \/ ManualReviewRequired
  \/ Finish

Spec == Init /\ [][Next]_vars

\* ================================================= the rules engine alone
\* Rule configurations the engine is loaded with (_load_rules reads any JSON
\* file of this shape) besides the default one: two groups, "first" and
\* "second" in insertion order, with rules drawn from a pool.
Always == << Cond(<<"age">>, "gte", IntV(1)) >>
Old == << Cond(<<"age">>, "gte", IntV(10)) >>
Unsafe ==
  << CondAny(<<"error_description">>, "contains", ListV(<<StrV(K_smoke), StrV(K_fire)>>)) >>

RulePool ==
  { Rule("repair_30", Always, "recommend_repair", 30, FALSE),
    Rule("replace_20", Always, "recommend_replace", 20, FALSE),
    Rule("replace_30_old", Old, "recommend_replace", 30, FALSE),
    Rule("safety_override", Unsafe, "refer_manufacturer", 0, TRUE),
    Rule("escalate_old_override", Old, "escalate", 50, TRUE),
    Rule("unweighted", Always, "manual_review", 0, FALSE) }

PriorityPairs == { <<Some(1), Some(2)>>, <<Some(2), Some(1)>>, <<None, Some(1)>>, <<Some(1), Some(1)>> }

TwoGroups(priorities, r1, r2, r3) ==
  << RuleSet("first", priorities[1], <<r1, r2>>),
     RuleSet("second", priorities[2], <<r3>>) >>

\* rules whose condition names a path the case does not have, and rules with
\* a malformed condition: an operator the engine does not know, no "field"
\* key, no "operator" key, a comparison value of the wrong type, no value
NoKey(operator, value) ==
  [field |-> None, operator |-> Some(operator), value |-> value,
   value_field |-> None, match_any |-> FALSE]
NoOperator(field, value) ==
  [field |-> Some(field), operator |-> None, value |-> value,
   value_field |-> None, match_any |-> FALSE]

MissingPathPool ==
  { Rule("missing_key", << Cond(<<"warranty">>, "equals", IntV(1)) >>,
         "recommend_replace", 40, FALSE),
    Rule("missing_nested_key", << Cond(<<"customer_data", "region">>, "equals", IntV(1)) >>,
         "recommend_replace", 40, FALSE),
    Rule("path_through_number", << Cond(<<"age", "years">>, "gte", IntV(1)) >>,
         "recommend_replace", 40, TRUE),
    Rule("missing_value_field", << CondField(<<"age">>, "gte", <<"lifespan">>) >>,
         "recommend_replace", 40, FALSE) }

MalformedPool ==
  { Rule("unknown_operator", << Cond(<<"age">>, "between", IntV(1)) >>,
         "recommend_replace", 40, FALSE),
    Rule("no_field_key", << NoKey("gte", IntV(1)) >>, "recommend_replace", 40, FALSE),
    Rule("no_operator_key", << NoOperator(<<"age">>, IntV(1)) >>,
         "recommend_replace", 40, FALSE),
    Rule("text_against_number", << Cond(<<"age">>, "gt", StrV(<<"t","e","n">>)) >>,
         "recommend_replace", 40, FALSE),
    Rule("no_value", << Cond(<<"age">>, "lte", NoneV) >>, "recommend_replace", 40, FALSE),
    Rule("number_in_keywords",
         << CondAny(<<"error_description">>, "contains", ListV(<<IntV(7)>>)) >>,
         "refer_manufacturer", 0, TRUE) }

\* a faulty rule comes first, second or in the later group, among sound rules
FaultyConfigs ==
  LET sound == {r \in RulePool : r.name \in {"repair_30", "safety_override"}}
  IN  UNION { {TwoGroups(p, bad, r, r), TwoGroups(p, r, bad, r), TwoGroups(p, r, r, bad)}
              : p \in PriorityPairs, bad \in MissingPathPool \cup MalformedPool, r \in sound }

RuleConfigs ==
  {DefaultRules}
    \cup {TwoGroups(p, r1, r2, r3) : p \in PriorityPairs, r1 \in RulePool,
                                     r2 \in RulePool, r3 \in RulePool}
    \cup FaultyConfigs

\* the case data of the demonstration requests, as process_service_case
\* hands it to evaluate_rules
RuleCases == {CaseData(enrich_case_with_real_data(c, S_Gold)) : c \in ScenarioCases}

InitRules ==
  /\ IdlePipeline
  /\ rules \in RuleConfigs
  /\ case_data \in RuleCases
  /\ scan = ScanStart
  /\ scan_pos = 1
  /\ IdleRanker
  /\ IdleBatch
  /\ IdleCustom

\* lines 281-308: one iteration of the inner loop of evaluate_rules
CheckRule ==
  /\ scan.outcome = "scanning"
  /\ scan_pos <= Len(ScanOrder(rules))
  /\ scan' = RuleStep(scan, ScanOrder(rules)[scan_pos].rule_set,
                      ScanOrder(rules)[scan_pos].rule, case_data)
  /\ scan_pos' = scan_pos + 1
  /\ UNCHANGED <<rules, case_data>>
  /\ UNCHANGED pipelineVars
  /\ UNCHANGED rankerVars
  /\ UNCHANGED batchVars
  /\ UNCHANGED customVars

\* lines 310-326: the loops ran to their end
ReturnRules ==
  /\ scan.outcome = "scanning"
  /\ scan_pos > Len(ScanOrder(rules))
  /\ scan' = Finalize(scan)
  /\ UNCHANGED <<rules, case_data, scan_pos>>
  /\ UNCHANGED pipelineVars
  /\ UNCHANGED rankerVars
  /\ UNCHANGED batchVars
  /\ UNCHANGED customVars

NextRules ==
  \/ CheckRule
  \/ ReturnRules

SpecRules == InitRules /\ [][NextRules]_vars

\* ======================================================== the ranker alone
\* generate_replacement_options on catalogs other than the shipped ones:
\* REPLACEMENT_PRODUCTS is a table anyone may extend, so the catalogs are the
\* sequences without repetition of at most MaxCatalog products of a pool:
\* the shipped cooktops and a second finish of one of them.
MaxCatalog == 4

Cooktop_second_finish ==
  [brand |-> S_VZug, model |-> "AdoraID V4000 black", price |-> 1800, margin |-> 360,
   stock |-> "medium", energy_rating |-> "A+"]

ProductPool == {Catalog_cooktop[i] : i \in 1..Len(Catalog_cooktop)} \cup {Cooktop_second_finish}

Catalogs ==
  UNION { {c \in [1..n -> ProductPool] : \A i, j \in 1..n : i # j => c[i] # c[j]}
          : n \in 0..MaxCatalog }

\* cost ceilings, in thousandths of a CHF
Ceilings == {600 * 1000, 800 * 1000, 1800 * 1000}
RankAges == {3, 6, 12}
Preferences == {BrandList(<<>>), BrandList(<<S_VZug, S_Miele>>), BrandText(S_VZug), BrandText(S_Siemens)}

InitRanker ==
  /\ IdlePipeline
  /\ IdleEngine
  /\ rank_in \in [available_products : Catalogs, cost_ceiling : Ceilings, age : RankAges,
                  customer_brands : Preferences]
  /\ rank_out = None
  /\ IdleBatch
  /\ IdleCustom

\* one call of the ranker
Rank ==
  /\ rank_out = None
  /\ rank_out' = Some(RankOffers(rank_in.available_products, rank_in.cost_ceiling,
                                 rank_in.age, rank_in.customer_brands))
  /\ UNCHANGED rank_in
  /\ UNCHANGED pipelineVars
  /\ UNCHANGED engineVars
  /\ UNCHANGED batchVars
  /\ UNCHANGED customVars

NextRanker == Rank

SpecRanker == InitRanker /\ [][NextRanker]_vars

\* ======================================================== the batch jobs
\* The batch endpoints of src/main.py.  batch_jobs is kept as the sequence of
\* the job records in the order of their creation: a job id (a fresh uuid4)
\* is the place of its record.  tasks[j] is the process_batch_cases call
\* that submit_batch_service_cases handed to a BackgroundTasks object for
\* job j, with the locals of that call.
MaxJobs == 2

\* int(text) of the CSV upload: a decimal number with an optional sign, None
\* where Python raises ValueError
RECURSIVE DigitsValue(_)
DigitsValue(text) ==
  IF text = <<>> THEN 0
  ELSE LET d == CHOOSE k \in 1..10 : Digits[k] = text[Len(text)]
       IN  DigitsValue(SubSeq(text, 1, Len(text) - 1)) * 10 + (d - 1)

IsDigits(text) ==
  /\ text # <<>>
  /\ \A i \in 1..Len(text) : \E k \in 1..10 : Digits[k] = text[i]

IntOf(text) ==
  IF IsDigits(text) THEN Some(DigitsValue(text))
  ELSE IF text # <<>> /\ Head(text) = "-" /\ IsDigits(Tail(text))
    THEN Some(0 - DigitsValue(Tail(text)))
  ELSE None

\* the case lists a POST /batch/service-cases carries
BatchInputs ==
  { <<>>,
    << [device_type |-> S_cooktop, brand |-> S_VZug, age |-> 3,
        error_description |-> D_heating] >>,
    << [device_type |-> S_cooktop, brand |-> S_VZug, age |-> 3,
        error_description |-> D_heating],
       [device_type |-> S_oven, brand |-> S_Siemens, age |-> 15,
        error_description |-> D_board] >> }

CsvRow(device_type, brand, age, error_description) ==
  [device_type |-> device_type, brand |-> brand, age |-> age,
   error_description |-> error_description]

\* the files POST /batch/upload-csv receives: the file name ends in .csv or
\* not, and the rows csv.DictReader yields, the age still a text
CsvFiles ==
  { [csv_name |-> FALSE, rows |-> <<>>],
    [csv_name |-> TRUE, rows |-> <<>>],
    [csv_name |-> TRUE,
     rows |-> << CsvRow(S_oven, S_Siemens, <<"1","5">>, D_board) >>],
    [csv_name |-> TRUE,
     rows |-> << CsvRow(S_cooktop, S_VZug, <<"3">>, D_heating),
                 CsvRow(S_dishwasher, S_VZug, <<"-","1">>, D_leak) >>],
    [csv_name |-> TRUE,
     rows |-> << CsvRow(S_cooktop, S_VZug, <<"3">>, D_heating),
                 CsvRow(S_oven, S_Siemens, <<"o","l","d">>, D_board) >>] }

\* the ServiceCaseInput list built from the rows; None when int() raises
RowsParse(rows) == \A i \in 1..Len(rows) : IntOf(rows[i].age) # None
CasesOfRows(rows) ==
  [i \in 1..Len(rows) |->
     [device_type |-> rows[i].device_type, brand |-> rows[i].brand,
      age |-> Val(IntOf(rows[i].age)),
      error_description |-> rows[i].error_description]]

\* lines 459-479 of submit_batch_service_cases: the job record is stored and
\* the task is added to the BackgroundTasks object it was called with.  The
\* one the framework injected is run after the response is sent; runner
\* tells which object holds the task.
SubmitJob(cases, runner) ==
  /\ batch_jobs' =
       Append(batch_jobs,
              [job_id |-> Len(batch_jobs) + 1,
               status |-> "queued",
               total_cases |-> Len(cases),
               completed_cases |-> 0,
               failed_cases |-> 0,
               results |-> <<>>,
               completed_at |-> None])
  /\ tasks' = Append(tasks, [cases |-> cases, runner |-> runner, at |-> "pending",
                             results |-> <<>>])
  /\ response' = "job"

\* POST /batch/service-cases (the demo user holds create_service_orders)
submit_batch_service_cases ==
  /\ Len(batch_jobs) < MaxJobs
  /\ \E cases \in BatchInputs : SubmitJob(cases, "framework")
  /\ UNCHANGED pipelineVars
  /\ UNCHANGED engineVars
  /\ UNCHANGED rankerVars
  /\ UNCHANGED customVars

\* POST /batch/upload-csv: a wrong file name or a row that does not parse is
\* answered with 400; otherwise submit_batch_service_cases is called with a
\* BackgroundTasks object made in the handler (line 533), which nothing runs
upload_csv_batch ==
  /\ Len(batch_jobs) < MaxJobs
  /\ \E file \in CsvFiles :
       IF file.csv_name /\ RowsParse(file.rows)
         THEN SubmitJob(CasesOfRows(file.rows), "handler")
         ELSE /\ response' = "bad_request"
              /\ UNCHANGED <<batch_jobs, tasks>>
  /\ UNCHANGED pipelineVars
  /\ UNCHANGED engineVars
  /\ UNCHANGED rankerVars
  /\ UNCHANGED customVars

\* the framework runs the tasks of the object it injected
Runnable(j) == j \in 1..Len(tasks) /\ tasks[j].runner = "framework"

\* process_batch_cases, line 542
StartBatch(j) ==
  /\ Runnable(j)
  /\ tasks[j].at = "pending"
  /\ batch_jobs' = [batch_jobs EXCEPT ![j].status = "processing"]
  /\ tasks' = [tasks EXCEPT ![j].at = "running"]
  /\ UNCHANGED response
  /\ UNCHANGED pipelineVars
  /\ UNCHANGED engineVars
  /\ UNCHANGED rankerVars
  /\ UNCHANGED customVars

\* a faulty loop that a failing case ends: the cases after it are dropped
ProcessCase_failure_ends_loop(j) ==
  /\ Runnable(j)
  /\ tasks[j].at = "running"
  /\ Len(tasks[j].results) < Len(tasks[j].cases)
  /\ \E raised \in BOOLEAN :
       LET i == Len(tasks[j].results)
           case_i == tasks[j].cases[i + 1]
           entry ==
             IF raised
               THEN [case_index |-> i, status |-> "failed", device_info |-> None]
               ELSE [case_index |-> i, status |-> "success",
                     device_info |-> Some([type |-> case_i.device_type,
                                           brand |-> case_i.brand, age |-> case_i.age])]
           results == Append(tasks[j].results, entry)
       IN  /\ tasks' = [tasks EXCEPT ![j].results = results,
                                   ![j].cases = IF raised THEN SubSeq(@, 1, i + 1) ELSE @]
           /\ batch_jobs' =
                [batch_jobs EXCEPT
                   ![j].completed_cases = IF raised THEN @ ELSE @ + 1,
                   ![j].failed_cases = IF raised THEN @ + 1 ELSE @,
                   ![j].results = results]
  /\ UNCHANGED response
  /\ UNCHANGED pipelineVars
  /\ UNCHANGED engineVars
  /\ UNCHANGED rankerVars
  /\ UNCHANGED customVars

\* one turn of the loop of process_batch_cases (lines 545-557):
\* process_single_case_for_batch returns the answer of the pipeline or
\* raises when a collaborator, the rules or the graph raise; the entry is
\* appended to the local list, the counter is raised and the local list is
\* stored in the job, with no await in between.  Of the answer the entry
\* keeps the device_info here; recommendation, confidence and justification
\* are those of Spec.
ProcessCase(j) ==
  /\ Runnable(j)
  /\ tasks[j].at = "running"
  /\ Len(tasks[j].results) < Len(tasks[j].cases)
  /\ \E raised \in BOOLEAN :
       LET i == Len(tasks[j].results)
           case_i == tasks[j].cases[i + 1]
           entry ==
             IF raised
               THEN [case_index |-> i, status |-> "failed", device_info |-> None]
               ELSE [case_index |-> i, status |-> "success",
                     device_info |-> Some([type |-> case_i.device_type,
                                           brand |-> case_i.brand, age |-> case_i.age])]
           results == Append(tasks[j].results, entry)
       IN  /\ tasks' = [tasks EXCEPT ![j].results = results]
           /\ batch_jobs' =
                [batch_jobs EXCEPT
                   ![j].completed_cases = IF raised THEN @ ELSE @ + 1,
                   ![j].failed_cases = IF raised THEN @ + 1 ELSE @,
                   ![j].results = results]
  /\ UNCHANGED response
  /\ UNCHANGED pipelineVars
  /\ UNCHANGED engineVars
  /\ UNCHANGED rankerVars
  /\ UNCHANGED customVars

\* lines 560-573: the job is marked completed; the notification that may
\* follow is sent by a collaborator that catches its own exceptions and
\* changes nothing here
CompleteBatch(j) ==
  /\ Runnable(j)
  /\ tasks[j].at = "running"
  /\ Len(tasks[j].results) = Len(tasks[j].cases)
  /\ batch_jobs' = [batch_jobs EXCEPT ![j].status = "completed",
                                      ![j].completed_at = Some("now")]
  /\ tasks' = [tasks EXCEPT ![j].at = "finished"]
  /\ UNCHANGED response
  /\ UNCHANGED pipelineVars
  /\ UNCHANGED engineVars
  /\ UNCHANGED rankerVars
  /\ UNCHANGED customVars

process_batch_cases(j) == StartBatch(j) \/ ProcessCase(j) \/ CompleteBatch(j)

InitBatch ==
  /\ IdlePipeline
  /\ IdleEngine
  /\ IdleRanker
  /\ IdleCustom
  /\ batch_jobs = <<>>
  /\ tasks = <<>>
  /\ response = "none"

NextBatch ==
  \/ submit_batch_service_cases
  \/ upload_csv_batch
  \/ \E j \in 1..MaxJobs : StartBatch(j)
  \/ \E j \in 1..MaxJobs : ProcessCase(j)
  \/ \E j \in 1..MaxJobs : CompleteBatch(j)

\* the event loop runs every task the framework holds until it returns
SpecBatch ==
  /\ InitBatch
  /\ [][NextBatch]_vars
  /\ \A j \in 1..MaxJobs : WF_vars(process_batch_cases(j))

\* ==================================================== add_custom_rule alone
\* the priority add_custom_rule gives a group it creates
CustomPriority == 99

GroupNames(rule_sets) == {rule_sets[g].name : g \in 1..Len(rule_sets)}

\* lines 413-416: the group is created when the name is new, and the rule is
\* appended to the rules of the group
WithRule(rule_sets, rule_set, rule) ==
  LET present ==
        IF rule_set \in GroupNames(rule_sets) THEN rule_sets
        ELSE Append(rule_sets, RuleSet(rule_set, Some(CustomPriority), <<>>))
  IN  [g \in 1..Len(present) |->
         IF present[g].name = rule_set
           THEN [present[g] EXCEPT !.rules = Append(@, rule)]
           ELSE present[g]]

\* the rule sets the engine holds when add_custom_rule is called, and the
\* names and rules it is called with
CustomBases ==
  { DefaultRules,
    TwoGroups(<<Some(1), Some(2)>>,
              Rule("repair_30", Always, "recommend_repair", 30, FALSE),
              Rule("replace_20", Always, "recommend_replace", 20, FALSE),
              Rule("replace_30_old", Old, "recommend_replace", 30, FALSE)) }
CustomNames == {"first", "custom_rules"}

InitCustom ==
  /\ IdlePipeline
  /\ IdleRanker
  /\ IdleBatch
  /\ rules \in CustomBases
  /\ case_data \in RuleCases
  /\ scan = ScanStart
  /\ scan_pos = 0
  /\ rules_before = <<>>
  /\ add_result = None

\* add_custom_rule: the rule is appended in memory (lines 413-416), then the
\* rule sets are written to the rules file (lines 418-420); the write
\* succeeds and True is returned, or it raises (a path that cannot be
\* written, a value json cannot encode) and the except branch returns False
add_custom_rule ==
  /\ add_result = None
  /\ \E rule_set \in CustomNames, rule \in RulePool, saved \in BOOLEAN :
       /\ rules_before' = rules
       /\ rules' = WithRule(rules, rule_set, rule)
       /\ add_result' = Some([returned |-> saved, rule_set |-> rule_set, rule |-> rule])
  /\ UNCHANGED <<case_data, scan, scan_pos>>
  /\ UNCHANGED pipelineVars
  /\ UNCHANGED rankerVars
  /\ UNCHANGED batchVars

\* a later call of evaluate_rules
EvaluateAfter ==
  /\ add_result # None
  /\ scan.outcome = "scanning"
  /\ scan' = evaluate_rules(rules, case_data)
  /\ UNCHANGED <<rules, case_data, scan_pos>>
  /\ UNCHANGED pipelineVars
  /\ UNCHANGED rankerVars
  /\ UNCHANGED batchVars
  /\ UNCHANGED customVars

NextCustom == add_custom_rule \/ EvaluateAfter

SpecCustom == InitCustom /\ [][NextCustom]_vars

\* ================================================================ claims
\* ---------------------------------------------------- the pipeline (Spec)
\* the four inputs of a request are valid: no empty text, a positive age
ValidInputs(c) ==
  /\ c.device_type # <<>>
  /\ c.brand # <<>>
  /\ c.error_description # <<>>
  /\ c.age > 0

\* the fault description names a safety keyword, in any case
SafetyCase(c) == HasSafetyKeyword(Lower(c.error_description))

TriageDone == state.triage_decision # None
TriageRoute == Val(state.triage_decision).route
TriageStatus == Val(state.triage_decision).status

Absent(o) == o = None
AbsentOrEmpty(o) == o = None \/ o = Some(<<>>)

\* C1: every request with four valid inputs whose fault description holds a
\* safety keyword is routed to urgent_manufacturer by triage, whatever its
\* age and category: the safety check comes before the warranty rule
\* (age <= 1) and before the lifespan rule (age >= 15).
C1_SafetyHasPriority ==
  (TriageDone /\ ValidInputs(case) /\ SafetyCase(case))
    => TriageRoute = "urgent_manufacturer"

\* C4: when triage returns the route manufacturer, urgent_manufacturer or
\* manual_review, the enrichment, the two analyses and the recommendation
\* are never invoked nor scheduled, and the run ends in manufacturer_referral
\* with confidence 1.0 (first two routes) or in manual_review with
\* confidence 0.0 (third route).
C4_ShortCircuit ==
  (TriageDone /\ TriageRoute \in {"manufacturer", "urgent_manufacturer", "manual_review"})
    => /\ \A n \in {"data_enrichment", "technical_analysis", "economic_analysis",
                    "recommendation"} : invoked[n] = 0 /\ n \notin active
       /\ pc = "done" =>
            /\ result # None
            /\ TriageRoute \in {"manufacturer", "urgent_manufacturer"} =>
                 /\ Val(result).recommendation = "manufacturer_referral"
                 /\ Val(result).confidence_score = 1000000
                 /\ invoked["manufacturer_referral"] = 1
            /\ TriageRoute = "manual_review" =>
                 /\ Val(result).recommendation = "manual_review"
                 /\ Val(result).confidence_score = 0
                 /\ invoked["manual_review_required"] = 1

\* a run that ended in the manufacturer referral on the urgent route
C4_Witness ==
  /\ pc = "done"
  /\ TriageDone
  /\ TriageRoute = "urgent_manufacturer"
  /\ Val(result).recommendation = "manufacturer_referral"
  /\ invoked["manufacturer_referral"] = 1

\* C5: in a run that reaches the enrichment, the recommendation is scheduled
\* and runs only once both analyses have run and their updates are merged
\* into the state, and it runs exactly once.
C5_JoinThenOnce ==
  /\ invoked["recommendation"] <= 1
  /\ ("recommendation" \in active \/ invoked["recommendation"] = 1) =>
       /\ invoked["technical_analysis"] = 1
       /\ invoked["economic_analysis"] = 1
       /\ "technical_analysis" \notin active
       /\ "economic_analysis" \notin active
       /\ state.repair_probability # None
       /\ state.technical_analysis # None
       /\ state.economic_viability # None
       /\ state.margin_analysis # None
  /\ (pc \in {"finish", "done"} /\ invoked["data_enrichment"] > 0) =>
       invoked["recommendation"] = 1

\* a finished run in which the recommendation ran after both analyses
C5_Witness ==
  /\ pc = "done"
  /\ invoked["data_enrichment"] = 1
  /\ invoked["technical_analysis"] = 1
  /\ invoked["economic_analysis"] = 1
  /\ invoked["recommendation"] = 1
  /\ Val(result).recommendation \in {"repair", "replace"}

\* C6: in every final result, repair comes with a repair order and no
\* replacement option; replace comes with at least one replacement option
\* and no repair order; manufacturer_referral, manual_review and error come
\* with neither.
C6_ResultShape ==
  pc = "done" =>
    LET r == Val(result)
    IN  /\ r.recommendation = "repair" =>
             ~Absent(r.repair_order) /\ AbsentOrEmpty(r.replacement_options)
        /\ r.recommendation = "replace" =>
             ~AbsentOrEmpty(r.replacement_options) /\ Absent(r.repair_order)
        /\ r.recommendation \in {"manufacturer_referral", "manual_review", "error"} =>
             Absent(r.repair_order) /\ AbsentOrEmpty(r.replacement_options)

\* C8: a request with non-empty category, brand and fault description, an
\* age of 15 or more and no safety keyword is routed to replacement_focus.
C8_OldDeviceReplacementFocus ==
  (/\ TriageDone
   /\ case.device_type # <<>>
   /\ case.brand # <<>>
   /\ case.error_description # <<>>
   /\ case.age >= 15
   /\ ~SafetyCase(case))
    => TriageRoute = "replacement_focus"

\* an old oven without a safety keyword, after triage
C8_Witness ==
  /\ TriageDone
  /\ Lower(case.device_type) = S_oven
  /\ case.brand # <<>>
  /\ case.age >= 15
  /\ case.error_description # <<>>
  /\ ~SafetyCase(case)
  /\ TriageRoute = "replacement_focus"

\* C9: triage answers manual_review / incomplete for every request with a
\* missing or invalid input (an empty text; an age that is zero or
\* negative), and answers complete, with another route, only when the four
\* inputs are valid.
C9_InvalidInputsToManualReview ==
  TriageDone =>
    /\ ~ValidInputs(case) => TriageRoute = "manual_review" /\ TriageStatus = "incomplete"
    /\ TriageStatus = "complete" => ValidInputs(case) /\ TriageRoute # "manual_review"

\* min(0.95, (score * 0.6 + probability * 100 * 0.4) / 100) in millionths,
\* for a probability in 1/10000
C10_Expected(score, probability) ==
  IF score * 6000 + probability * 40 < 950000
    THEN score * 6000 + probability * 40
    ELSE 950000

C10_Scores == {5 * k : k \in 0..20}
C10_Probabilities == {250 * k : k \in 0..40}

\* the formula on a grid of scores in [0,100] and probabilities in [0,1]
C10_OnGrid ==
  \A s \in C10_Scores, p \in C10_Probabilities :
    /\ SynthesisConfidence(s, p) = C10_Expected(s, p)
    /\ SynthesisConfidence(s, p) \in 0..950000

\* C10: the confidence of the synthesis is min(0.95, (score*0.6 +
\* probability*100*0.4)/100) and lies in [0, 0.95], on a grid of scores in
\* [0,100] and probabilities in [0,1] and on every score and probability the
\* pipeline produces; the confidence of every final result lies in [0,1]:
\* 1.0 for manufacturer_referral, 0.0 for manual_review and error.
C10_ConfidenceRange ==
  /\ C10_OnGrid
  /\ invoked["recommendation"] = 1 =>
       LET score == Val(state.margin_analysis).economic_score
           probability == Val(state.repair_probability)
       IN  /\ score \in 0..100
           /\ probability \in 0..10000
           /\ state.confidence_score = Some(C10_Expected(score, probability))
           /\ Val(state.confidence_score) \in 0..950000
  /\ pc = "done" =>
       LET r == Val(result)
       IN  /\ r.confidence_score \in 0..1000000
           /\ r.recommendation \in {"repair", "replace"} => r.confidence_score <= 950000
           /\ r.recommendation = "manufacturer_referral" => r.confidence_score = 1000000
           /\ r.recommendation \in {"manual_review", "error"} => r.confidence_score = 0

\* a repair whose confidence is held at 0.95 by the cap
C10_Witness ==
  /\ pc = "done"
  /\ invoked["recommendation"] = 1
  /\ Val(result).recommendation = "repair"
  /\ Val(result).confidence_score = 950000
  /\ Val(state.margin_analysis).economic_score * 6000
       + Val(state.repair_probability) * 40 > 950000

\* ------------------------------------------- claims on the rules engine alone
\* the scan order of the configured rules and what the scan has evaluated
RulesOrder == ScanOrder(rules)
RulesChecked == Len(scan.checked)

\* the priority of the group a scanned rule belongs to
GroupPriority(rule_set_name) ==
  PriorityOf(CHOOSE rs \in {rules[g] : g \in 1..Len(rules)} : rs.name = rule_set_name)

\* rule i of the scan order matches the case
RuleMatches(i) ==
  _evaluate_rule_conditions(RulesOrder[i].rule.conditions, case_data) = "true"

\* the matching override rules, by position in the scan order
MatchingOverrides == {i \in 1..Len(RulesOrder) : RulesOrder[i].rule.override /\ RuleMatches(i)}

FirstOverride == CHOOSE i \in MatchingOverrides : \A j \in MatchingOverrides : i <= j

\* groups in ascending priority, every group's rules together and in
\* declaration order
C2_OrderIsByPriority ==
  /\ \A i, j \in 1..Len(RulesOrder) :
       i < j => GroupPriority(RulesOrder[i].rule_set) <= GroupPriority(RulesOrder[j].rule_set)
  /\ \A g \in 1..Len(rules) :
       \E offset \in 0..Len(RulesOrder) :
         \A j \in 1..Len(rules[g].rules) :
           /\ offset + j <= Len(RulesOrder)
           /\ RulesOrder[offset + j] = [rule_set |-> rules[g].name, rule |-> rules[g].rules[j]]

\* C2: evaluate_rules evaluates the rules group by group in ascending
\* priority and in declaration order within a group; at the first matching
\* override rule it returns at once: the recommendation is the one that
\* rule's action stands for, the confidence is exactly 1.0, override_applied
\* is true, no rule after it has been evaluated, and the weights tallied
\* before it have no part in the result.
C2_OverrideShortCircuit ==
  /\ C2_OrderIsByPriority
  /\ RulesChecked <= Len(RulesOrder)
  /\ scan.checked = [i \in 1..RulesChecked |-> RulesOrder[i].rule.name]
  /\ MatchingOverrides # {} => RulesChecked <= FirstOverride
  /\ scan.override_applied <=> (MatchingOverrides # {} /\ RulesChecked = FirstOverride)
  /\ scan.override_applied =>
       /\ scan.outcome = "returned"
       /\ ~ENABLED CheckRule
       /\ ~ENABLED ReturnRules
       /\ scan.final_recommendation =
            Some(_action_to_recommendation(RulesOrder[FirstOverride].rule.action))
       /\ scan.confidence_score = <<1, 1>>

\* an override that returns after weights were tallied and before the last
\* rule of the scan order
C2_Witness ==
  /\ scan.override_applied
  /\ scan.outcome = "returned"
  /\ scan.total_weight > 0
  /\ RulesChecked < Len(RulesOrder)
  /\ scan.final_recommendation # Some(FirstWithWeight(scan.recommendation_weights,
                                                       MaxWeight(scan.recommendation_weights)))

\* the weight the matching rules without override give to a category, summed
\* over positions i.. of the scan order
RECURSIVE TallyFrom(_, _)
TallyFrom(category, i) ==
  IF i > Len(RulesOrder) THEN 0
  ELSE (IF /\ RuleMatches(i)
           /\ ~RulesOrder[i].rule.override
           /\ RulesOrder[i].rule.weight > 0
           /\ _action_to_recommendation(RulesOrder[i].rule.action) = category
          THEN RulesOrder[i].rule.weight ELSE 0)
       + TallyFrom(category, i + 1)

Tally(category) == TallyFrom(category, 1)
TallyTotal == Tally("repair") + Tally("replace") + Tally("manufacturer") + Tally("manual")

\* the first of repair, replace, manufacturer, manual that no category beats
TallyWinner ==
  IF Tally("repair") >= Max(Tally("replace"), Max(Tally("manufacturer"), Tally("manual")))
    THEN "repair"
  ELSE IF Tally("replace") >= Max(Tally("manufacturer"), Tally("manual")) THEN "replace"
  ELSE IF Tally("manufacturer") >= Tally("manual") THEN "manufacturer"
  ELSE "manual"

\* C3: when no override rule matches and the matching rules carry a weight
\* above zero, evaluate_rules returns the category of repair, replace,
\* manufacturer, manual with the highest tally, the first of them in that
\* order when tallies are equal, with confidence tally / total weight.
C3_WeightedTally ==
  (scan.outcome = "returned" /\ MatchingOverrides = {} /\ TallyTotal > 0) =>
    /\ ~scan.override_applied
    /\ scan.total_weight = TallyTotal
    /\ scan.final_recommendation = Some(TallyWinner)
    /\ scan.confidence_score[1] * TallyTotal = Tally(TallyWinner) * scan.confidence_score[2]
    /\ scan.confidence_score[2] > 0
    /\ scan.rule_weights = Some([c \in {"repair", "replace", "manufacturer", "manual"} |-> Tally(c)])

\* 30 for repair and 20 for replace: repair with confidence 0.6
C3_Witness ==
  /\ scan.outcome = "returned"
  /\ MatchingOverrides = {}
  /\ Tally("repair") = 30
  /\ Tally("replace") = 20
  /\ TallyTotal = 50
  /\ scan.final_recommendation = Some("repair")
  /\ scan.confidence_score = <<30, 50>>

\* ------------------------------------------------- claims on the ranker alone
Ranked == rank_out # None
Offers == Val(rank_out)

\* the place of an offer in the catalog it was drawn from
CatalogIndex(offer) ==
  CHOOSE k \in 1..Len(rank_in.available_products) :
    rank_in.available_products[k].model = offer.model

EconomicDone == state.margin_analysis # None

\* the factors of the economic score as <<predicate, weight>>, the cost/value
\* ratio compared without division (money in thousandths of a CHF)
C11_Factors(repair_cost, cost_ceiling, current_value, customer_tier, age) ==
  { <<"ceiling", repair_cost <= cost_ceiling, 40>>,
    <<"ratio_low", current_value > 0 /\ 10 * repair_cost < 5 * current_value, 25>>,
    <<"ratio_mid", /\ current_value > 0
                   /\ ~(10 * repair_cost < 5 * current_value)
                   /\ 10 * repair_cost < 8 * current_value, 10>>,
    <<"gold", customer_tier = S_Gold, 15>>,
    <<"silver", customer_tier = S_Silver, 10>>,
    <<"sustainable", age < 8, 10>>,
    <<"young", 15 > 2 * age, 10>> }

RECURSIVE SumWeights(_)
SumWeights(factors) ==
  IF factors = {} THEN 0
  ELSE LET f == CHOOSE x \in factors : TRUE
       IN  (IF f[2] THEN f[3] ELSE 0) + SumWeights(factors \ {f})

C11_Expected(repair_cost, cost_ceiling, current_value, customer_tier, age) ==
  SumWeights(C11_Factors(repair_cost, cost_ceiling, current_value, customer_tier, age))

\* repair costs, ceilings and device values in thousandths of a CHF, around
\* the thresholds of the ratio bands
C11_Costs == {0, 100000, 249999, 250000, 399999, 400000, 500000, 900000}
C11_Ceilings == {0, 250000, 800000}
C11_Values == {0, 500000, 2000000}
C11_Ages == {0, 7, 8, 15, 40}

C11_OnGrid ==
  \A rc \in C11_Costs, cc \in C11_Ceilings, cv \in C11_Values, t \in Tiers, a \in C11_Ages :
    /\ EconomicScore(rc, cc, cv, t, a) = C11_Expected(rc, cc, cv, t, a)
    /\ EconomicScore(rc, cc, cv, t, a) \in 0..100

\* C11: the economic score is the sum of the weights of the factors that
\* hold (ceiling 40; cost/value ratio 25 below 0.5, 10 below 0.8; Gold 15,
\* Silver 10; age < 8 10; age/15 < 0.5 10), it lies in [0,100], and the
\* verdict is repair exactly when the score is at least 60; on a grid of
\* inputs and on every record the pipeline hands to the economic analysis.
C11_EconomicScore ==
  /\ C11_OnGrid
  /\ EconomicDone =>
       LET score == Val(state.margin_analysis).economic_score
       IN  /\ score = C11_Expected(Val(state.repair_cost), Val(state.cost_ceiling),
                                   Val(state.device_specs).current_market_value,
                                   Val(state.customer_data).customer_tier, state.age)
           /\ score \in 0..100
           /\ state.economic_viability = Some("repair") <=> score >= 60
           /\ state.economic_viability = Some("replace") <=> score < 60

\* an economic analysis that ended below 60, with some factor holding
C11_Witness ==
  /\ EconomicDone
  /\ Val(state.margin_analysis).economic_score \in 1..59
  /\ state.economic_viability = Some("replace")

TechnicalDone == state.repair_probability # None

\* the base success rate the technical analysis started from, in percent
BaseRate ==
  LET m == Val(state.technical_analysis).matched_error_pattern
  IN  IF m = 0 THEN DefaultSuccessRate
      ELSE CommonErrors(Lower(state.device_type), state.brand)[m].success_rate

\* the decay the claim states, in percent: 1.0 up to age 5, then 5 points a
\* year down to the floor of 0.5 reached at age 15
C12_ExpectedFactor(age) ==
  IF age <= 5 THEN 100
  ELSE IF age >= 15 THEN 50
  ELSE 100 - 5 * (age - 5)

C12_Ages == (-1..40) \cup {100, 1000, 1000000}
C12_Rates == {0, 75, 85, 88, 90, 92, 94, 95, 100}

C12_OnGrid ==
  \A age \in C12_Ages, rate \in C12_Rates :
    /\ AgeFactor(age) = C12_ExpectedFactor(age)
    /\ rate * AgeFactor(age) \in 0..10000
    /\ 2 * rate * AgeFactor(age) >= rate * 100

\* C12: for every age, very large ones included, and every base success
\* rate, the repair probability of the technical analysis is in [0,1]: the
\* decay factor is 1.0 up to age 5 and max(0.5, 1 - (age-5)*0.05) above, so
\* the probability is never below half the base rate; on a grid of ages and
\* rates and on every record the pipeline analyses.
C12_ProbabilityRange ==
  /\ C12_OnGrid
  /\ TechnicalDone =>
       LET probability == Val(state.repair_probability)
           factor == Val(state.technical_analysis).age_impact_factor
       IN  /\ factor = C12_ExpectedFactor(state.age)
           /\ probability = BaseRate * factor
           /\ probability \in 0..10000
           /\ 2 * probability >= BaseRate * 100

\* a device of 15 years or more whose matched rate is halved
C12_Witness ==
  /\ TechnicalDone
  /\ state.age >= 15
  /\ Val(state.technical_analysis).matched_error_pattern # 0
  /\ Val(state.technical_analysis).age_impact_factor = 50
  /\ 2 * Val(state.repair_probability) = BaseRate * 100

\* ---------------------------------- more claims on the rules engine alone
FaultyRule(rule) == rule \in MissingPathPool \cup MalformedPool

\* the names of the rules the scan recorded as matching
AppliedNames == {scan.applied_rules[i].rule_name : i \in 1..Len(scan.applied_rules)}

\* C13: a condition on a missing field path and a malformed condition
\* (unknown operator, no field key, comparison value of the wrong type or
\* absent) evaluate to false and never raise: evaluate_rules is not aborted,
\* the faulty rule does not match, and the rules after it are evaluated.
C13_FaultyConditionIsFalse ==
  /\ scan.outcome # "raised"
  /\ \A i \in 1..RulesChecked :
       FaultyRule(RulesOrder[i].rule) => RulesOrder[i].rule.name \notin AppliedNames
  /\ (scan.outcome = "returned" /\ ~scan.override_applied) => RulesChecked = Len(RulesOrder)

\* C14: when the conditions of no rule match the case, evaluate_rules
\* returns repair with confidence 0.5 and override_applied false.
C14_DefaultWhenNothingMatches ==
  (scan.outcome = "returned" /\ \A i \in 1..Len(RulesOrder) : ~RuleMatches(i)) =>
    /\ scan.final_recommendation = Some("repair")
    /\ scan.confidence_score[1] * 2 = scan.confidence_score[2]
    /\ ~scan.override_applied
    /\ scan.applied_rules = <<>>
    /\ RulesChecked = Len(RulesOrder)

\* a scan of sound rules that went through every rule and matched none
C14_Witness ==
  /\ scan.outcome = "returned"
  /\ Len(RulesOrder) = 3
  /\ RulesChecked = 3
  /\ \A i \in 1..3 : ~RuleMatches(i) /\ RulesOrder[i].rule \in RulePool
  /\ scan.final_recommendation = Some("repair")
  /\ scan.confidence_score = <<1, 2>>

\* ------------------------------------------ more claims on the case pipeline
NoStageRan == \A n \in Nodes : invoked[n] = 0

\* C15: an exception raised while a case is processed (by the cost
\* estimator before the rules, by the rules engine, by a stage of the graph,
\* by a collaborator after the decision) ends the request in the result
\* error with confidence 0.0, a diagnostic justification, no repair order
\* and no replacement offers; every request that ends has a result.
C15_ExceptionsEndInErrorResult ==
  /\ result # None <=> pc = "done"
  /\ scan.outcome = "raised" => pc = "done" /\ NoStageRan
  /\ pc = "done" =>
       LET r == Val(result)
       IN  /\ r.recommendation = "error" =>
                /\ r.confidence_score = 0
                /\ r.justification.source = "error"
                /\ Absent(r.repair_order)
                /\ Absent(r.replacement_options)
           /\ scan.outcome = "raised" => r.recommendation = "error"
           /\ case_data = NoneV => r.recommendation = "error" /\ NoStageRan
           /\ r.recommendation # "error" =>
                /\ scan.outcome = "returned"
                /\ state.recommendation = Some(r.recommendation)

\* a repair was decided and the creation of the service order raised
C15_Witness ==
  /\ pc = "done"
  /\ state.recommendation = Some("repair")
  /\ state.repair_order # None
  /\ Val(result).recommendation = "error"
  /\ Val(result).confidence_score = 0

\* the request ended before the rules saw the case: the fetch of the cost
\* estimate in enrich_case_with_real_data raised
FetchFailed == pc = "done" /\ case_data = NoneV

\* C16: when the fetch from a collaborator fails, the case still runs
\* through the pipeline on conservative defaults (repair cost 300, customer
\* tier Standard) and ends with a recommendation other than error.
C16_FetchFailureUsesDefaults ==
  FetchFailed =>
    /\ Val(result).recommendation # "error"
    /\ invoked["triage"] = 1
    /\ enriched_state.repair_cost = Some(DefaultRepairCost * 1000)
    /\ enriched_state.customer_data # None
    /\ Val(enriched_state.customer_data).customer_tier = S_Standard

\* ---- claims on the stages as functions of the case record ----

\* the updates Enrichment can return for the record it is handed
EnrichmentOutputs == {data_enrichment_agent(state, jitter) : jitter \in Jitters}

\* the updates Recommendation can return for the record it is handed
RecommendationOutputs ==
  {recommendation_engine_agent(state, order_id) : order_id \in OrderIds}

\* C17: every stage is deterministic: two runs on the same case record return
\* the same update.  Triage, Technical Analysis and Economic Analysis are
\* operators of the record alone; Enrichment and Recommendation also take the
\* number the random source returned, so they are deterministic exactly when
\* every such number yields the same update.
C17_StagesAreDeterministic ==
  /\ "data_enrichment" \in active => Cardinality(EnrichmentOutputs) = 1
  /\ "recommendation" \in active => Cardinality(RecommendationOutputs) = 1

\* ------------------------------------------- claims on the demonstration runs
\* scenario B of get_demo_scenarios: an old Siemens oven
ScenarioB ==
  [device_type |-> S_oven, brand |-> S_Siemens, age |-> 15, error_description |-> D_board]

\* every value random.randint(-50, 100) can return
AllJitters == MinJitter..MaxJitter

\* the record the graph ends with for scenario B, stage after stage
ScenarioBTriage(s0) == ApplyUpdate(s0, [triage_decision |-> Some(triage_agent(s0))])
ScenarioBEnriched(s1, jitter) == ApplyUpdate(s1, data_enrichment_agent(s1, jitter))
ScenarioBAnalysed(s2) ==
  ApplyUpdate(ApplyUpdate(s2, technical_analyst_agent(s2)), economic_analyst_agent(s2))
ScenarioBFinal(s3, order_id) == ApplyUpdate(s3, recommendation_engine_agent(s3, order_id))

\* 1 to 3 offers, each with a higher score than the next
RankedOffers(offers) ==
  /\ Len(offers) \in 1..TopOffers
  /\ \A i \in 1..(Len(offers) - 1) :
       offers[i].recommendation_score > offers[i + 1].recommendation_score

ScenarioBOnGrid ==
  \A jitter \in AllJitters :
    LET s1 == ScenarioBTriage(enrich_case_with_real_data(ScenarioB, S_Standard))
        s4 == ScenarioBFinal(ScenarioBAnalysed(ScenarioBEnriched(s1, jitter)), MinOrderId)
    IN  /\ Val(s1.triage_decision).route = "replacement_focus"
        /\ s4.recommendation = Some("replace")
        /\ s4.repair_order = None
        /\ RankedOffers(Val(s4.replacement_options))

\* C18: for the request oven / Siemens / 15 years / "Complete control board
\* failure" and every value of the cost jitter, triage returns
\* replacement_focus, the final recommendation is replace and the result
\* holds 1 to 3 offers in descending order of score; on every jitter from -50
\* to 100 stage after stage, and on every run of the pipeline in which no
\* collaborator raises.
C18_ScenarioB ==
  /\ ScenarioBOnGrid
  /\ case = ScenarioB =>
       /\ TriageDone => TriageRoute = "replacement_focus"
       /\ (pc = "done" /\ Val(result) # ErrorResult) =>
            /\ invoked["recommendation"] = 1
            /\ Val(result).recommendation = "replace"
            /\ Val(result).repair_order = None
            /\ RankedOffers(Val(Val(result).replacement_options))

\* scenario B answered with replace and three offers
C18_Witness ==
  /\ case = ScenarioB
  /\ pc = "done"
  /\ TriageDone
  /\ TriageRoute = "replacement_focus"
  /\ Val(result).recommendation = "replace"
  /\ Len(Val(Val(result).replacement_options)) \in 1..TopOffers

\* ----------------------------------------- claims on the replacement_focus route
ReplacementFocus == TriageDone /\ TriageRoute = "replacement_focus"

Stages == {"triage", "data_enrichment", "technical_analysis", "economic_analysis",
           "recommendation"}

\* a stage has run or is about to
Started(n) == invoked[n] > 0 \/ n \in active

\* no terminal node, no stage twice, every stage after the ones before it,
\* and the answer taken from the update of the recommendation stage
C19_StageOrder ==
  ReplacementFocus =>
    /\ \A n \in {"manufacturer_referral", "manual_review_required"} : ~Started(n)
    /\ \A n \in Stages : invoked[n] <= 1 /\ (n \in active => invoked[n] = 0)
    /\ Started("data_enrichment")
    /\ \A n \in {"technical_analysis", "economic_analysis"} :
         Started(n) => invoked["data_enrichment"] = 1 /\ state.cost_ceiling # None
    /\ Started("recommendation") =>
         /\ invoked["technical_analysis"] = 1
         /\ invoked["economic_analysis"] = 1
    /\ pc \in {"finish", "done"} => \A n \in Stages : invoked[n] = 1
    /\ (pc = "done" /\ Val(result) # ErrorResult) =>
         /\ state.recommendation # None
         /\ Val(result).recommendation = Val(state.recommendation)
         /\ Val(result).justification = Val(state.justification)
         /\ Val(result).justification.source = "recommendation"
         /\ Val(result).confidence_score = Val(state.confidence_score)

\* one step of a replacement_focus request: the stages follow each other as
\* they do for a normal request, and the request is never left without a
\* step to take before it has ended
C19_StageSequence ==
  /\ (~TriageDone /\ state'.triage_decision # None
        /\ Val(state'.triage_decision).route = "replacement_focus")
       => active' = {"data_enrichment"} /\ pc' = "graph"
  /\ ReplacementFocus =>
       /\ active = {"data_enrichment"} =>
            active' = {"technical_analysis", "economic_analysis"}
       /\ active = {"technical_analysis", "economic_analysis"} =>
            active' \in {{"technical_analysis"}, {"economic_analysis"}}
       /\ active \in {{"technical_analysis"}, {"economic_analysis"}} =>
            active' = {"recommendation"}
       /\ active = {"recommendation"} => active' = {} /\ pc' = "finish"
       /\ pc = "finish" => pc' = "done" /\ result' # None
       /\ pc' = "graph" => active' # {} /\ active' \subseteq Stages

\* C19: a request that triage routes to replacement_focus is not cut short:
\* the enrichment runs, then the technical and the economic analysis, then
\* the recommendation, each exactly once and no terminal node, the request
\* then ends, and its answer is the one of the recommendation stage.
C19_ReplacementFocusRunsAllStages ==
  /\ []C19_StageOrder
  /\ [][C19_StageSequence]_vars

\* a replacement_focus request ended by the recommendation stage
C19_Witness ==
  /\ pc = "done"
  /\ ReplacementFocus
  /\ \A n \in Stages : invoked[n] = 1
  /\ Val(result).justification.source = "recommendation"

\* ------------------------------------- claims on the two parallel analyses
\* the record both analyses are handed: the enrichment is merged and neither
\* update of the step has been applied yet
AnalysesPending ==
  /\ pc = "graph"
  /\ active \cap {"technical_analysis", "economic_analysis"} # {}

TechnicalWrites == DOMAIN technical_analyst_agent(state)
EconomicWrites == DOMAIN economic_analyst_agent(state)

\* the record handed to the recommendation when first runs before second,
\* second seeing what first wrote
RunInOrder(st, first, second) ==
  LET after_first ==
        ApplyUpdate(st, IF first = "technical_analysis" THEN technical_analyst_agent(st)
                        ELSE economic_analyst_agent(st))
  IN  ApplyUpdate(after_first,
                  IF second = "technical_analysis" THEN technical_analyst_agent(after_first)
                  ELSE economic_analyst_agent(after_first))

\* the record handed to the recommendation when both run on the same
\* snapshot and their updates are applied in the given order
MergeInOrder(st, first, second) ==
  ApplyAll(st, << [node |-> first,
                   update |-> IF first = "technical_analysis"
                                THEN technical_analyst_agent(st)
                                ELSE economic_analyst_agent(st)],
                  [node |-> second,
                   update |-> IF second = "technical_analysis"
                                THEN technical_analyst_agent(st)
                                ELSE economic_analyst_agent(st)] >>)

\* C20: the technical and the economic analysis write disjoint sets of
\* fields and neither reads a field the other writes: on every record the
\* enrichment leaves, each returns the same update whether or not the other
\* has written, and the merged record is the same in either order and in
\* either interleaving.
C20_AnalysesCommute ==
  AnalysesPending =>
    /\ TechnicalWrites \cap EconomicWrites = {}
    /\ technical_analyst_agent(ApplyUpdate(state, economic_analyst_agent(state)))
         = technical_analyst_agent(state)
    /\ economic_analyst_agent(ApplyUpdate(state, technical_analyst_agent(state)))
         = economic_analyst_agent(state)
    /\ MergeInOrder(state, "technical_analysis", "economic_analysis")
         = MergeInOrder(state, "economic_analysis", "technical_analysis")
    /\ RunInOrder(state, "technical_analysis", "economic_analysis")
         = MergeInOrder(state, "technical_analysis", "economic_analysis")
    /\ RunInOrder(state, "economic_analysis", "technical_analysis")
         = MergeInOrder(state, "technical_analysis", "economic_analysis")
    /\ \A i \in 1..Len(writes) :
         writes[i].update = IF writes[i].node = "technical_analysis"
                              THEN technical_analyst_agent(state)
                              ELSE economic_analyst_agent(state)

\* the economic analysis has run first and the technical one is still to run
C20_Witness ==
  /\ AnalysesPending
  /\ active = {"technical_analysis"}
  /\ Len(writes) = 1
  /\ writes[1].node = "economic_analysis"
  /\ state.repair_probability = None

\* ------------------------------------ claims on the recommendation synthesis
SynthesisDone == invoked["recommendation"] = 1 /\ state.recommendation # None

LowProbability(probability) == probability < 6000
HighProbabilityGold(probability, tier) == probability > 9000 /\ tier = S_Gold

\* what the synthesis has to answer for a probability, a tier and a verdict
C21_Expected(probability, tier, verdict) ==
  IF LowProbability(probability) THEN "replace"
  ELSE IF HighProbabilityGold(probability, tier) THEN "repair"
  ELSE verdict

\* the update of the synthesis follows the override order
C21_Follows(update, probability, tier, verdict) ==
  LET final == Val(update.agent_reasoning)
  IN  /\ update.recommendation = Some(C21_Expected(probability, tier, verdict))
      /\ Val(update.recommendation) \in {"repair", "replace"}
      /\ final.override_applied
           <=> (LowProbability(probability) \/ HighProbabilityGold(probability, tier))
      /\ final.override_reason =
           (IF LowProbability(probability)
              THEN Some("Low technical success probability")
            ELSE IF HighProbabilityGold(probability, tier)
              THEN Some("High success probability with premium customer")
            ELSE None)

\* the record with another probability, tier and economic verdict
WithAnalyses(st, probability, tier, verdict) ==
  [st EXCEPT !.repair_probability = Some(probability),
             !.customer_data = Some([Val(@) EXCEPT !.customer_tier = tier]),
             !.economic_viability = Some(verdict)]

\* probabilities on both sides of 0.6 and of 0.9, in 1/10000
C21_Probabilities == {0, 5999, 6000, 6001, 8999, 9000, 9001, 10000}

\* C21: the synthesis starts from the economic verdict and applies at most
\* one override: probability < 0.6 gives replace; otherwise probability > 0.9
\* with tier Gold gives repair; otherwise the verdict stands.  Its answer is
\* repair or replace, and override_applied holds exactly when one of the two
\* conditions held; on the record of every run, and on that record with
\* every tier, verdict and probability around the two thresholds.
C21_OverrideOrder ==
  /\ "recommendation" \in active =>
       \A probability \in C21_Probabilities, tier \in Tiers, verdict \in {"repair", "replace"} :
         C21_Follows(recommendation_engine_agent(
                       WithAnalyses(state, probability, tier, verdict), MinOrderId),
                     probability, tier, verdict)
  /\ SynthesisDone =>
       C21_Follows(state, Val(state.repair_probability),
                   Val(state.customer_data).customer_tier, Val(state.economic_viability))

\* a repair verdict of the economic analysis turned into replace by the low
\* probability
C21_Witness ==
  /\ SynthesisDone
  /\ LowProbability(Val(state.repair_probability))
  /\ state.economic_viability = Some("repair")
  /\ state.recommendation = Some("replace")
  /\ Val(state.agent_reasoning).override_applied

\* ------------------------------------------- claims on what the stages keep
\* the fields enrich_case_with_real_data fills from the collaborators
FetchedFields ==
  {"repair_cost", "spare_part_availability", "customer_data", "device_specs",
   "cost_ceiling"}

\* the four inputs of the request
InputFields == {"device_type", "brand", "age", "error_description"}

\* the graph has been entered with the enriched record
GraphEntered == invoked["triage"] = 1

C23_InputsAreKept ==
  /\ \A f \in InputFields : state[f] = case[f] /\ enriched_state[f] = case[f]
  /\ \A i \in 1..Len(writes) : DOMAIN writes[i].update \cap InputFields = {}

\* a request written "Oven" has been referred to the manufacturer and its
\* record still says "Oven"
C23_Witness ==
  /\ pc = "done"
  /\ invoked["manufacturer_referral"] = 1
  /\ state.recommendation = Some("manufacturer_referral")
  /\ case.device_type = S_Oven
  /\ state.device_type = S_Oven

\* ---------------------------------------------- claims on the cost ceiling
EnrichmentDone == invoked["data_enrichment"] = 1 /\ state.sap_data # None

\* the ceiling the current market value v calls for, both in thousandths of
\* a CHF
C24_Expected(v, age) ==
  IF age > 10 THEN Min(Max((v * 6) \div 10, 1800 * 1000), 2500 * 1000)
  ELSE Min((v * 6) \div 10, 800 * 1000)

\* C24: the cost ceiling the enrichment computes from the current market
\* value v of the device is clamp(v*0.6, 1800, 2500) when age > 10, hence in
\* [1800, 2500], and min(v*0.6, 800) when age <= 10, hence at most 800; it is
\* never negative.
C24_CostCeiling ==
  EnrichmentDone =>
    LET v == Val(state.device_specs).current_market_value
        cost_ceiling == Val(state.cost_ceiling)
    IN  /\ cost_ceiling = C24_Expected(v, state.age)
        /\ cost_ceiling >= 0
        /\ state.age > 10 => cost_ceiling \in (1800 * 1000)..(2500 * 1000)
        /\ state.age <= 10 => cost_ceiling <= 800 * 1000

\* ------------------------------------------- claims on the returned offers
\* C25: every offer generate_replacement_options returns is a product of the
\* catalog it was given and costs at most the cost ceiling times 2.0 when
\* age > 10 and times 1.5 otherwise; its ranking_position is its place in
\* the returned list, counted from 1, and its label is High for a score
\* above 70, Medium above 50, Standard otherwise (scores in tenths).
C25_OffersWithinBudget ==
  Ranked =>
    \A i \in 1..Len(Offers) :
      LET offer == Offers[i]
      IN  /\ \E k \in 1..Len(rank_in.available_products) :
               LET product == rank_in.available_products[k]
               IN  /\ product.model = offer.model
                   /\ product.brand = offer.brand
                   /\ product.price = offer.price
                   /\ product.margin = offer.margin
          /\ offer.price * 1000 * 10
               <= rank_in.cost_ceiling * (IF rank_in.age > 10 THEN 20 ELSE 15)
          /\ offer.ranking_position = i
          /\ offer.recommendation_confidence =
               (IF offer.recommendation_score > 700 THEN "High"
                ELSE IF offer.recommendation_score > 500 THEN "Medium"
                ELSE "Standard")

\* a product of the catalog was too dear and is left out, and the offers
\* returned carry two different labels
C25_Witness ==
  /\ Ranked
  /\ Len(Offers) >= 2
  /\ \E k \in 1..Len(rank_in.available_products) :
       rank_in.available_products[k].price * 1000 * 10
         > rank_in.cost_ceiling * (IF rank_in.age > 10 THEN 20 ELSE 15)
  /\ \E i, j \in 1..Len(Offers) :
       Offers[i].recommendation_confidence # Offers[j].recommendation_confidence

\* ------------------------------ claims on the answer of process_service_case
TerminalNodes == {"recommendation", "manufacturer_referral", "manual_review_required"}

\* the request was answered without an exception
Answered == pc = "done" /\ result # None /\ Val(result) # ErrorResult

DefaultReturned ==
  /\ scan.outcome = "returned"
  /\ ~scan.override_applied
  /\ scan.reasoning_chain # <<>>
  /\ scan.reasoning_chain[Len(scan.reasoning_chain)] = "No specific rules matched"

\* C27: evaluate_rules returns the default result (repair, confidence 0.5,
\* "No specific rules matched") only when no rule matched the case: with a
\* non-empty applied_rules the verdict is that of the matched rules.
C27_DefaultOnlyWhenNothingMatched ==
  DefaultReturned => scan.applied_rules = <<>>

\* ------------------------------------------------ claims on the batch jobs
JobIds == 1..MaxJobs

Submitted(j) == j \in 1..Len(batch_jobs)
Completed(j) ==
  /\ Submitted(j)
  /\ batch_jobs[j].status = "completed"
  /\ batch_jobs[j].completed_at # None

StatusRank(status) ==
  IF status = "queued" THEN 0 ELSE IF status = "processing" THEN 1 ELSE 2

\* the status of a job moves one step forward or stays
StatusMovesForward ==
  \A j \in JobIds :
    Submitted(j) =>
      /\ j \in 1..Len(batch_jobs')
      /\ batch_jobs'[j].status \in {"queued", "processing", "completed"}
      /\ StatusRank(batch_jobs'[j].status) - StatusRank(batch_jobs[j].status) \in {0, 1}

\* C28: every batch job that was submitted, by POST /batch/service-cases or
\* by the CSV upload, eventually has status completed with completed_at
\* set; its status only moves from queued to processing to completed and
\* never back.
C28_JobsComplete ==
  /\ [][StatusMovesForward]_vars
  /\ \A j \in JobIds : Submitted(j) ~> Completed(j)

\* the entries of a job's results are those of its first cases, in order:
\* entry k is about case k - 1 and a success names the device of that case
InInputOrder(j) ==
  \A k \in 1..Len(batch_jobs[j].results) :
    LET entry == batch_jobs[j].results[k]
    IN  /\ entry.case_index = k - 1
        /\ entry.status \in {"success", "failed"}
        /\ entry.status = "success" =>
             entry.device_info = Some([type |-> tasks[j].cases[k].device_type,
                                       brand |-> tasks[j].cases[k].brand,
                                       age |-> tasks[j].cases[k].age])

CountStatus(results, status) ==
  Cardinality({k \in 1..Len(results) : results[k].status = status})

\* C29: whenever a batch job can be observed, completed_cases + failed_cases
\* is the number of entries of results and at most total_cases; a case that
\* fails adds one failed entry and the cases after it are still processed;
\* with status completed the sum is total_cases and results holds one entry
\* per case in input order.
C29_BatchCounters ==
  \A j \in JobIds :
    Submitted(j) =>
      LET job == batch_jobs[j]
      IN  /\ job.total_cases = Len(tasks[j].cases)
          /\ job.completed_cases + job.failed_cases = Len(job.results)
          /\ Len(job.results) <= job.total_cases
          /\ job.completed_cases = CountStatus(job.results, "success")
          /\ job.failed_cases = CountStatus(job.results, "failed")
          /\ InInputOrder(j)
          /\ job.status = "queued" => job.results = <<>>
          /\ job.status = "completed" =>
               /\ job.completed_cases + job.failed_cases = job.total_cases
               /\ Len(job.results) = job.total_cases

\* a job of two cases is completed, its first case failed and its second
\* succeeded
C29_Witness ==
  \E j \in JobIds :
    /\ Submitted(j)
    /\ batch_jobs[j].status = "completed"
    /\ batch_jobs[j].total_cases = 2
    /\ batch_jobs[j].failed_cases = 1
    /\ batch_jobs[j].completed_cases = 1
    /\ batch_jobs[j].results[1].status = "failed"
    /\ batch_jobs[j].results[2].status = "success"

\* -------------------------------------------- claims on add_custom_rule
\* the group of the given name
GroupNamed(rule_sets, name) ==
  rule_sets[CHOOSE g \in 1..Len(rule_sets) : rule_sets[g].name = name]

\* C30: add_custom_rule returns True, and the rule is then the last rule of
\* the named group (a group that was not there has priority 99) and later
\* calls of evaluate_rules evaluate it, or it returns False, and then the
\* rule sets the engine holds are those it held before the call and later
\* calls of evaluate_rules give what they gave before.
C30_AddCustomRule ==
  add_result # None =>
    LET call == Val(add_result)
    IN  /\ call.returned =>
             /\ call.rule_set \in GroupNames(rules)
             /\ LET group == GroupNamed(rules, call.rule_set)
                IN  /\ group.rules # <<>>
                    /\ group.rules[Len(group.rules)] = call.rule
                    /\ call.rule_set \notin GroupNames(rules_before)
                         => group.priority = Some(CustomPriority)
             /\ \E i \in 1..Len(ScanOrder(rules)) : ScanOrder(rules)[i].rule = call.rule
        /\ ~call.returned =>
             /\ rules = rules_before
             /\ evaluate_rules(rules, case_data) = evaluate_rules(rules_before, case_data)
             /\ scan.outcome # "scanning" => scan = evaluate_rules(rules_before, case_data)

====
